---- MODULE Spec2Model ----
(***************************************************************************)
(* Spatial index and flow fields of UnitSimGodot                           *)
(* (src/src/physics/spatial_structures.rs, src/src/util.rs, src/src/lib.rs)*)
(*                                                                         *)
(* Numbers.  Positions, radii, cell sizes and movement costs are integers. *)
(* f32::MAX is the sentinel F32_MAX, which absorbs addition the way        *)
(* f32::MAX + c rounds back to f32::MAX for every cost c of the model.     *)
(* A cached distance sqrt(d2) is kept as its square d2 and compared with a *)
(* query distance q as d2 <= q*q (sqrt is monotone on the non-negatives);  *)
(* f32 rounding is not modelled.                                           *)
(* A 2D float vector built by build_flow_fields is a map from square-free  *)
(* numbers s to integer pairs, standing for the sum of (x, y) / sqrt(s) up *)
(* to a positive common factor.                                            *)
(***************************************************************************)
EXTENDS Integers, Sequences, FiniteSets, TLC

VARIABLES
    terrain,             \* TerrainMap resource (ECSWorld.terrain_map)
    agents,              \* entity id -> components (team, position, radius, awareness)
    pc,                  \* position inside build_flow_fields
    alignment_to_cells,  \* build_flow_fields: TeamValue -> set of occupied cells
    todo,                \* alignments the outer for loop has not visited yet
    team,                \* alignment of the current outer iteration
    open_queue,          \* VecDeque of cells
    integration_field,   \* <<cell, team>> -> value (nested HashMaps)
    flow_field,          \* <<cell, team>> -> vector (nested HashMaps)
    relaxed_from,        \* history: <<cell, team>> -> cell whose pop last lowered the value
    res_integration_field, \* the integration field resource last inserted
    res_flow_fields,     \* the FlowFieldsTowardsEnemies resource last inserted
    spatial,             \* SpatialHashTable resource: cell -> Seq of entities
    radii,               \* SpatialNeighborsRadii resource
    neighbor_cache,      \* SpatialNeighborsCache resource
    clock,               \* ECSWorld.clock
    published,           \* history: the resources inserted, with the Clock value of their step
    reply                \* what the last reader (a query, a lookup, a behaviour) was handed

vars == <<terrain, agents, pc, alignment_to_cells, todo, team, open_queue,
          integration_field, flow_field, relaxed_from, res_integration_field,
          res_flow_fields, spatial, radii, neighbor_cache, clock, published, reply>>

flowVars == <<pc, alignment_to_cells, todo, team, open_queue,
              integration_field, flow_field, relaxed_from,
              res_integration_field, res_flow_fields>>

indexVars == <<spatial, radii, neighbor_cache>>

----------------------------------------------------------------------------
(* Bounds of the model *)

RowLen == 3          \* width of the one-row terrain
BlockSide == 2       \* side of the square terrain
MaxTiles == 2        \* tiles set with set_tile
MaxEnemies == 2      \* agents of the second faction
MaxCost == 2         \* movement cost of a tile set with set_tile
MaxTicks == 12       \* physics steps taken
HashSpan == 4        \* positions of the hashed points: -HashSpan..HashSpan
RingLen == 4         \* width of the longer one-row terrain

(* Program constants *)

F32_MAX == 1000000
HASH_CELL_SIZE == 36
REBUILD_INTERVAL == 6
max_convolution_length == 1

----------------------------------------------------------------------------
(* Small helpers *)

Abs(n) == IF n < 0 THEN -n ELSE n

Range(s) == {s[i] : i \in DOMAIN s}

Contains(s, v) == \E i \in DOMAIN s : s[i] = v

RECURSIVE Perms(_)
Perms(S) ==
    IF S = {} THEN {<<>>}
    ELSE UNION {{<<x>> \o p : p \in Perms(S \ {x})} : x \in S}

(* (a / b) as i32 for b > 0: float division, then truncation toward zero *)
TruncDiv(a, b) == IF a >= 0 THEN a \div b ELSE -((-a) \div b)

NoReply == <<>>

NoTeam == "none"
Team1 == "Team(1)"
Team2 == "Team(2)"
NeutralPassive == "NeutralPassive"
NeutralHostile == "NeutralHostile"

----------------------------------------------------------------------------
(* TerrainMap *)

Impassable == [pathable_mask |-> 0, movement_cost |-> 0]

Pathable(cost) == [pathable_mask |-> 1, movement_cost |-> cost]

(* the map is asked first, the bounds only for a coordinate it lacks *)
GetCellMapFirst(t, coords) ==
    IF coords \in DOMAIN t.map THEN t.map[coords]
    ELSE IF \/ coords[1] < 0
            \/ coords[2] < 0
            \/ coords[1] >= t.max_bounds[1]
            \/ coords[2] >= t.max_bounds[2]
         THEN t.out_of_bounds_cell
         ELSE t.default_cell

get_cell(t, coords) ==
    IF \/ coords[1] < 0
       \/ coords[2] < 0
       \/ coords[1] >= t.max_bounds[1]
       \/ coords[2] >= t.max_bounds[2]
    THEN t.out_of_bounds_cell
    ELSE IF coords \in DOMAIN t.map THEN t.map[coords] ELSE t.default_cell

get_point_spatial_hash(point, cell_size) ==
    <<TruncDiv(point[1], cell_size), TruncDiv(point[2], cell_size)>>

InRangeX(x, bounds) == x >= -1 /\ x <= bounds[1]
InRangeY(y, bounds) == y >= -1 /\ y <= bounds[2]

get_orthognal_neighbor_cells(cell, bounds) ==
    LET xs == SelectSeq(<<cell[1] - 1, cell[1] + 1>>, LAMBDA x : InRangeX(x, bounds))
        ys == SelectSeq(<<cell[2] - 1, cell[2] + 1>>, LAMBDA y : InRangeY(y, bounds))
    IN  [i \in 1..Len(xs) |-> <<xs[i], cell[2]>>] \o
        [i \in 1..Len(ys) |-> <<cell[1], ys[i]>>]

get_diagonal_neighbor_cells(cell, bounds) ==
    SelectSeq(<< <<cell[1] - 1, cell[2] - 1>>, <<cell[1] - 1, cell[2] + 1>>,
                 <<cell[1] + 1, cell[2] - 1>>, <<cell[1] + 1, cell[2] + 1>> >>,
              LAMBDA c : InRangeX(c[1], bounds) /\ InRangeY(c[2], bounds))

(* The ring at distance `size`: the two rows, then the two columns; the     *)
(* corners are pushed by both loops.                                        *)
get_convolution_neighbor_cells_increment(cell, size, bounds) ==
    LET span == 2 * size + 1
        y1 == cell[2] - size
        y2 == cell[2] + size
        x1 == cell[1] - size
        x2 == cell[1] + size
        rowOk(x) == x >= 0 /\ y1 >= 0 /\ x <= bounds[1] /\ y2 <= bounds[2]
        colOk(y) == x1 >= 0 /\ y >= 0 /\ x2 <= bounds[1] /\ y <= bounds[2]
        xs == SelectSeq([i \in 1..span |-> cell[1] - size + i - 1], rowOk)
        ys == SelectSeq([i \in 1..span |-> cell[2] - size + i - 1], colOk)
    IN  [i \in 1..(2 * Len(xs)) |->
            IF i % 2 = 1 THEN <<xs[(i + 1) \div 2], y1>> ELSE <<xs[i \div 2], y2>>] \o
        [i \in 1..(2 * Len(ys)) |->
            IF i % 2 = 1 THEN <<x1, ys[(i + 1) \div 2]>> ELSE <<x2, ys[i \div 2]>>]

----------------------------------------------------------------------------
(* HashMap<SpatialHashCell, HashMap<TeamValue, T>> as a map on <<cell, team>> *)

set_spatial_team_value(field, cell, tm, value) ==
    [p \in DOMAIN field \cup {<<cell, tm>>} |->
        IF p = <<cell, tm>> THEN value ELSE field[p]]

get_spatial_team_value(field, cell, tm, default) ==
    IF <<cell, tm>> \in DOMAIN field THEN field[<<cell, tm>>] ELSE default

FieldKeys(field) == {p[1] : p \in DOMAIN field}

EmptyField == [p \in {} |-> 0]

AddCostOnce(val, cost) == IF val >= F32_MAX THEN F32_MAX ELSE cost

(* f32 addition of a movement cost to an integration value *)
AddCost(val, cost) == IF val >= F32_MAX THEN F32_MAX ELSE val + cost

----------------------------------------------------------------------------
(* build_flow_fields, integration part: one iteration of the while loop *)

RelaxNoEnqueue(st, neighbor, ctx) ==
    LET cost == get_cell(ctx.t, neighbor).movement_cost
        potential_path_cost == ctx.curr_node_val + cost
    IN  IF potential_path_cost < get_spatial_team_value(st.field, neighbor, ctx.team, F32_MAX)
        THEN [st EXCEPT
                !.field = set_spatial_team_value(@, neighbor, ctx.team, potential_path_cost),
                !.from = set_spatial_team_value(@, neighbor, ctx.team, ctx.node)]
        ELSE st

(* the relax-and-enqueue rule shared by the orthogonal and diagonal loops *)
Relax(st, neighbor, ctx) ==
    LET cost == get_cell(ctx.t, neighbor).movement_cost
        potential_path_cost == AddCost(ctx.curr_node_val, cost)
        neighbor_val == get_spatial_team_value(st.field, neighbor, ctx.team, F32_MAX)
    IN  IF potential_path_cost < neighbor_val
        THEN [st EXCEPT
                !.queue = Append(@, neighbor),
                !.field = set_spatial_team_value(@, neighbor, ctx.team, potential_path_cost),
                !.from = set_spatial_team_value(@, neighbor, ctx.team, ctx.node)]
        ELSE st

OrthStepThroughWalls(st, neighbor, ctx) == Relax(st, neighbor, ctx)

OrthStep(st, neighbor, ctx) ==
    IF get_cell(ctx.t, neighbor).pathable_mask = 0
    THEN [st EXCEPT
            !.field = set_spatial_team_value(@, neighbor, ctx.team, F32_MAX),
            !.obstacle_x = Append(@, neighbor[1]),
            !.obstacle_y = Append(@, neighbor[2])]
    ELSE Relax(st, neighbor, ctx)

CornerBlockedNever(obstacle_x, obstacle_y, neighbor) == FALSE

(* the diagonal is skipped past an impassable orthogonal neighbour *)
CornerBlocked(obstacle_x, obstacle_y, neighbor) ==
    Contains(obstacle_x, neighbor[1]) \/ Contains(obstacle_y, neighbor[2])

DiagStep(st, neighbor, ctx) ==
    IF get_cell(ctx.t, neighbor).pathable_mask = 0
    THEN [st EXCEPT !.field = set_spatial_team_value(@, neighbor, ctx.team, F32_MAX)]
    ELSE IF CornerBlocked(st.obstacle_x, st.obstacle_y, neighbor)
         THEN st
         ELSE Relax(st, neighbor, ctx)

RECURSIVE OrthLoop(_, _, _, _)
OrthLoop(st, nbrs, i, ctx) ==
    IF i > Len(nbrs) THEN st
    ELSE OrthLoop(OrthStep(st, nbrs[i], ctx), nbrs, i + 1, ctx)

RECURSIVE DiagLoop(_, _, _, _)
DiagLoop(st, nbrs, i, ctx) ==
    IF i > Len(nbrs) THEN st
    ELSE DiagLoop(DiagStep(st, nbrs[i], ctx), nbrs, i + 1, ctx)

(* pop the front node and examine its eight neighbours *)
PopNode(field, queue, from, t, tm) ==
    LET node == Head(queue)
        ctx == [t |-> t, team |-> tm, node |-> node,
                curr_node_val |-> get_spatial_team_value(field, node, tm, F32_MAX)]
        st0 == [field |-> field, queue |-> Tail(queue), from |-> from,
                obstacle_x |-> <<>>, obstacle_y |-> <<>>]
        st1 == OrthLoop(st0, get_orthognal_neighbor_cells(node, t.max_bounds), 1, ctx)
    IN  DiagLoop(st1, get_diagonal_neighbor_cells(node, t.max_bounds), 1, ctx)

(* no NaN test: `NaN as i32` is 0, the unit lands in cell (0, 0) *)
PartitionCellsOfNaN(ags, t) ==
    [a \in {ags[e].team : e \in DOMAIN ags} |->
        {IF ags[e].nan THEN <<0, 0>> ELSE get_point_spatial_hash(ags[e].pos, t.cell_size) :
            e \in {x \in DOMAIN ags : ags[x].team = a}}]

(* cells that contain units of each alignment *)
PartitionCells(ags, t) ==
    [a \in {ags[e].team : e \in DOMAIN ags} |->
        {get_point_spatial_hash(ags[e].pos, t.cell_size) :
            e \in {x \in DOMAIN ags : ags[x].team = a /\ ~ags[x].nan}}]

(* the cells of every alignment, the own one too *)
OpenSetOfAll(a2c, a) == UNION {a2c[b] : b \in DOMAIN a2c}

(* the open set of an alignment: the cells of every other alignment *)
OpenSet(a2c, a) == UNION {a2c[b] : b \in DOMAIN a2c \ {a}}

SeedField(field, cells, tm, value) ==
    [p \in DOMAIN field \cup {<<c, tm>> : c \in cells} |->
        IF p[2] = tm /\ p[1] \in cells THEN value ELSE field[p]]

----------------------------------------------------------------------------
(* Vectors of the flow field.  A vector is a map from a square-free s to an *)
(* integer pair <<x, y>>, standing for the sum over s of (x, y) / sqrt(s),  *)
(* up to a positive rational factor.  The square roots of distinct          *)
(* square-free numbers are linearly independent over the rationals, so a   *)
(* vector is zero iff every pair is <<0, 0>>.                               *)

RECURSIVE Gcd(_, _)
Gcd(a, b) == IF b = 0 THEN Abs(a) ELSE Gcd(b, a % Abs(b))

Lcm(a, b) == (a \div Gcd(a, b)) * b

RECURSIVE LcmOf(_)
LcmOf(S) == IF S = {} THEN 1 ELSE LET x == CHOOSE v \in S : TRUE IN Lcm(x, LcmOf(S \ {x}))

RECURSIVE GcdOf(_)
GcdOf(S) == IF S = {} THEN 0 ELSE LET x == CHOOSE v \in S : TRUE IN Gcd(x, GcdOf(S \ {x}))

(* q = k * k * s with s square-free: <<s, k>> *)
RECURSIVE SquareFree(_, _, _)
SquareFree(q, k, f) ==
    IF f * f > q THEN <<q, k>>
    ELSE IF q % (f * f) = 0 THEN SquareFree(q \div (f * f), k * f, f)
         ELSE SquareFree(q, k, f + 1)

VecZero == [s \in {} |-> <<0, 0>>]

(* a vector with a NaN component: 0 is the key of no other vector *)
VecNaN == 0 :> <<0, 0>>

VecAdd(v, s, x, y) ==
    [r \in DOMAIN v \cup {s} |->
        IF r = s
        THEN IF s \in DOMAIN v THEN <<v[s][1] + x, v[s][2] + y>> ELSE <<x, y>>
        ELSE v[r]]

(* v + normalized_or_zero(d) * w; exact for the directions of rings 1 and 2 *)
VecAddDir(v, d, w) ==
    LET q == d[1] * d[1] + d[2] * d[2]
        sk == SquareFree(q, 1, 2)
    IN  IF q = 0 \/ w = 0 THEN v
        ELSE VecAdd(v, sk[1], (w * d[1]) \div sk[2], (w * d[2]) \div sk[2])

Primitive(d) == LET g == Gcd(d[1], d[2]) IN <<d[1] \div g, d[2] \div g>>

(* the unit vector of v, or zero: a vector whose parts all point the same   *)
(* way is the unit vector of that direction, kept as 1 :> direction         *)
normalized_or_zero(v) ==
    LET nz == {s \in DOMAIN v : v[s] # <<0, 0>>}
        g == GcdOf(UNION {{v[s][1], v[s][2]} : s \in nz})
        dirs == {Primitive(v[s]) : s \in nz}
    IN  IF v = VecNaN THEN VecNaN
        ELSE IF nz = {} THEN VecZero
        ELSE IF Cardinality(dirs) = 1
             THEN 1 :> (CHOOSE d \in dirs : TRUE)
             ELSE [s \in nz |-> <<v[s][1] \div g, v[s][2] \div g>>]

(* 1000. / integration_val over the common denominator den.  The value 0   *)
(* stands for the floor 0.01 of `.max(0.01)`, and 1000 / f32::MAX vanishes  *)
(* against every other weight.                                              *)
WeightUnclamped(integration_val, den) ==
    IF integration_val >= F32_MAX THEN [finite |-> TRUE, n |-> 0]
    ELSE IF integration_val <= 0 THEN [finite |-> FALSE, n |-> 0]
         ELSE [finite |-> TRUE, n |-> den \div integration_val]

Weight(integration_val, den) ==
    IF integration_val >= F32_MAX THEN [finite |-> TRUE, n |-> 0]
    ELSE IF integration_val <= 0 THEN [finite |-> TRUE, n |-> 100 * den]
         ELSE [finite |-> TRUE, n |-> den \div integration_val]

(* flow += direction * weight; an infinite weight times a direction with a  *)
(* zero component, or normalised afterwards, is NaN, and NaN stays NaN      *)
RECURSIVE SumTerms(_, _, _, _)
SumTerms(v, terms, i, den) ==
    IF i > Len(terms) THEN v
    ELSE LET w == Weight(terms[i].val, den)
             sum == IF v = VecNaN \/ ~w.finite THEN VecNaN
                    ELSE VecAddDir(v, terms[i].d, w.n)
         IN  SumTerms(sum, terms, i + 1, den)

WeightedSum(terms) ==
    LET vals == {terms[i].val : i \in DOMAIN terms}
        den == LcmOf({x \in vals : x > 0 /\ x < F32_MAX})
    IN  SumTerms(VecZero, terms, 1, den)

----------------------------------------------------------------------------
(* build_flow_fields, flow part: the body of `for cell in integration_field.keys()` *)

Term(cell, neighbor, val) ==
    [d |-> <<neighbor[1] - cell[1], neighbor[2] - cell[2]>>, val |-> val]

ScanNeighbor(sc, neighbor, cell, field, tm) ==
    LET integration_val == get_spatial_team_value(field, neighbor, tm, F32_MAX)
        lower == integration_val < sc.min_integration_val
    IN  [sc EXCEPT
            !.min_integration_val = IF lower THEN integration_val ELSE @,
            !.min_node = IF lower THEN neighbor ELSE @,
            !.terms = Append(@, Term(cell, neighbor, integration_val))]

RECURSIVE FlowOrthLoop(_, _, _, _, _, _, _)
FlowOrthLoop(sc, nbrs, i, cell, field, tm, t) ==
    IF i > Len(nbrs) THEN sc
    ELSE LET neighbor == nbrs[i]
             nxt == IF get_cell(t, neighbor).pathable_mask = 0
                    THEN [sc EXCEPT !.obstacle_x = Append(@, neighbor[1]),
                                    !.obstacle_y = Append(@, neighbor[2])]
                    ELSE ScanNeighbor(sc, neighbor, cell, field, tm)
         IN  FlowOrthLoop(nxt, nbrs, i + 1, cell, field, tm, t)

(* the diagonal scan without the marks for impassable diagonal cells *)
RECURSIVE FlowDiagLoopUnmarked(_, _, _, _, _, _, _)
FlowDiagLoopUnmarked(sc, nbrs, i, cell, field, tm, t) ==
    IF i > Len(nbrs) THEN sc
    ELSE LET neighbor == nbrs[i]
             nxt == IF CornerBlocked(sc.obstacle_x, sc.obstacle_y, neighbor)
                       \/ get_cell(t, neighbor).pathable_mask = 0
                    THEN sc
                    ELSE ScanNeighbor(sc, neighbor, cell, field, tm)
         IN  FlowDiagLoopUnmarked(nxt, nbrs, i + 1, cell, field, tm, t)

RECURSIVE FlowDiagLoop(_, _, _, _, _, _, _)
FlowDiagLoop(sc, nbrs, i, cell, field, tm, t) ==
    IF i > Len(nbrs) THEN sc
    ELSE LET neighbor == nbrs[i]
             nxt == IF CornerBlocked(sc.obstacle_x, sc.obstacle_y, neighbor)
                    THEN sc
                    ELSE IF get_cell(t, neighbor).pathable_mask = 0
                         THEN [sc EXCEPT !.obstacle_x = Append(@, -1),
                                         !.obstacle_y = Append(@, -1)]
                         ELSE ScanNeighbor(sc, neighbor, cell, field, tm)
         IN  FlowDiagLoop(nxt, nbrs, i + 1, cell, field, tm, t)

(* the loop over rings 2, 3, ...: the body runs before the length is tested *)
RECURSIVE ConvolutionLoop(_, _, _, _, _, _)
ConvolutionLoop(terms, convolution_length, cell, field, tm, t) ==
    LET ring == get_convolution_neighbor_cells_increment(cell, convolution_length, t.max_bounds)
        obstacle_encountered ==
            \E i \in DOMAIN ring : get_cell(t, ring[i]).pathable_mask = 0
        temp == [i \in DOMAIN ring |->
                    Term(cell, ring[i], get_spatial_team_value(field, ring[i], tm, F32_MAX))]
    IN  IF obstacle_encountered THEN terms
        ELSE IF convolution_length + 1 > max_convolution_length THEN terms \o temp
             ELSE ConvolutionLoop(terms \o temp, convolution_length + 1, cell, field, tm, t)

(* the vector stored for `cell`; only called when the cell is not skipped *)
FlowOfCell(field, cell, tm, t) ==
    LET sc0 == [obstacle_x |-> <<>>, obstacle_y |-> <<>>, min_node |-> <<0, 0>>,
                min_integration_val |-> F32_MAX, terms |-> <<>>]
        sc1 == FlowOrthLoop(sc0, get_orthognal_neighbor_cells(cell, t.max_bounds), 1,
                            cell, field, tm, t)
        sc2 == FlowDiagLoop(sc1, get_diagonal_neighbor_cells(cell, t.max_bounds), 1,
                            cell, field, tm, t)
        flow == IF sc2.obstacle_x = <<>>
                THEN WeightedSum(ConvolutionLoop(sc2.terms, 2, cell, field, tm, t))
                ELSE normalized_or_zero(VecAdd(VecZero, 1,
                        sc2.min_node[1] - cell[1], sc2.min_node[2] - cell[2]))
    IN  normalized_or_zero(flow)

(* integration_val_of_cell <= 0.01 *)
FlowSkipped(field, cell, tm) == get_spatial_team_value(field, cell, tm, F32_MAX) <= 0

BuildFlowOfTeam(flow, field, tm, t) ==
    LET cells == {c \in FieldKeys(field) : ~FlowSkipped(field, c, tm)}
    IN  [p \in DOMAIN flow \cup {<<c, tm>> : c \in cells} |->
            IF p[2] = tm /\ p[1] \in cells THEN FlowOfCell(field, p[1], tm, t) ELSE flow[p]]

----------------------------------------------------------------------------
(* Spatial hash table and neighbor cache *)

HashOfCentre(position, radius, cell_size) ==
    <<get_point_spatial_hash(position, cell_size)>>

(* the cells met by the square around the circle, x-major *)
get_all_spatial_hashes_from_circle(position, radius, cell_size) ==
    LET min_hash == get_point_spatial_hash(<<position[1] - radius, position[2] - radius>>, cell_size)
        max_hash == get_point_spatial_hash(<<position[1] + radius, position[2] + radius>>, cell_size)
        nx == max_hash[1] - min_hash[1] + 1
        ny == max_hash[2] - min_hash[2] + 1
    IN  IF nx <= 0 \/ ny <= 0 THEN <<>>
        ELSE [i \in 1..(nx * ny) |->
                <<min_hash[1] + ((i - 1) \div ny), min_hash[2] + ((i - 1) % ny)>>]

(* spatial.table after the entities of `order` have been pushed *)
RECURSIVE HashTableOf(_, _, _, _)
HashTableOf(table, ags, order, i) ==
    IF i > Len(order) THEN table
    ELSE LET entity == order[i]
             cells == Range(get_all_spatial_hashes_from_circle(
                                ags[entity].pos, ags[entity].r, HASH_CELL_SIZE))
             nxt == [c \in DOMAIN table \cup cells |->
                        IF c \in cells
                        THEN IF c \in DOMAIN table THEN Append(table[c], entity) ELSE <<entity>>
                        ELSE table[c]]
         IN  HashTableOf(nxt, ags, order, i + 1)

EntityOrderAware(ags) == CHOOSE p \in Perms({e \in DOMAIN ags : ags[e].aware}) : TRUE

EntityOrder(ags) == [i \in 1..Len(ags) |-> i]

build_spatial_hash_table(ags) == HashTableOf(<<>>, ags, EntityOrder(ags), 1)

true_distance_squared(pos1, pos2, rad1, rad2) ==
    (pos1[1] - pos2[1]) * (pos1[1] - pos2[1]) + (pos1[2] - pos2[2]) * (pos1[2] - pos2[2])
        - (rad1 + rad2) * (rad1 + rad2)

Max(a, b) == IF a >= b THEN a ELSE b

SpatialNeighborsCacheNew(rr) == [radii |-> rr, vec_of_maps |-> [i \in DOMAIN rr |-> <<>>]]

PushNeighbor(map, key, pair) ==
    [k \in DOMAIN map \cup {key} |->
        IF k = key
        THEN IF key \in DOMAIN map THEN Append(map[key], pair) ELSE <<pair>>
        ELSE map[k]]

RecordOneWay(maps, rr, entity, entity_test, distance_squared) ==
    [i \in DOMAIN maps |->
        IF distance_squared <= rr[i] * rr[i]
        THEN PushNeighbor(maps[i], entity, <<entity_test, distance_squared>>)
        ELSE maps[i]]

(* the pair is filed under the smallest tier that reaches it only *)
RecordSmallestTier(maps, rr, entity, entity_test, distance_squared) ==
    [i \in DOMAIN maps |->
        IF /\ distance_squared <= rr[i] * rr[i]
           /\ \A j \in 1..(i - 1) : distance_squared > rr[j] * rr[j]
        THEN PushNeighbor(PushNeighbor(maps[i], entity, <<entity_test, distance_squared>>),
                          entity_test, <<entity, distance_squared>>)
        ELSE maps[i]]

(* every tier whose radius reaches the pair records it under both entities *)
RecordPair(maps, rr, entity, entity_test, distance_squared) ==
    [i \in DOMAIN maps |->
        IF distance_squared <= rr[i] * rr[i]
        THEN PushNeighbor(PushNeighbor(maps[i], entity, <<entity_test, distance_squared>>),
                          entity_test, <<entity, distance_squared>>)
        ELSE maps[i]]

(* the entities of the buckets of the awareness square, in scan order *)
RECURSIVE Candidates(_, _, _)
Candidates(table, cells, i) ==
    IF i > Len(cells) THEN <<>>
    ELSE (IF cells[i] \in DOMAIN table THEN table[cells[i]] ELSE <<>>)
            \o Candidates(table, cells, i + 1)

MarkCheckedNever(checked_neighbors, entity_test) == checked_neighbors

(* checked_neighbors.insert: the entity is not tested again in this scan *)
MarkChecked(checked_neighbors, entity_test) == checked_neighbors \cup {entity_test}

RECURSIVE ScanCandidates(_, _, _, _, _, _, _)
ScanCandidates(maps, checked_neighbors, cands, i, entity, ags, rr) ==
    IF i > Len(cands) THEN maps
    ELSE LET entity_test == cands[i]
         IN  IF entity_test \in checked_neighbors
             THEN ScanCandidates(maps, checked_neighbors, cands, i + 1, entity, ags, rr)
             ELSE LET distance_squared ==
                          Max(true_distance_squared(ags[entity].pos, ags[entity_test].pos,
                                                    ags[entity].r, ags[entity_test].r), 0)
                  IN  ScanCandidates(RecordPair(maps, rr, entity, entity_test, distance_squared),
                                     MarkChecked(checked_neighbors, entity_test),
                                     cands, i + 1, entity, ags, rr)

(* the outer loop over the entities with a SpatialAwareness, in query order *)
RECURSIVE CacheLoop(_, _, _, _, _, _, _)
CacheLoop(maps, checked_ents, order, i, ags, table, rr) ==
    IF i > Len(order) THEN maps
    ELSE LET entity == order[i]
             checked == checked_ents \cup {entity}
             cells == get_all_spatial_hashes_from_circle(
                          ags[entity].pos, ags[entity].aw, HASH_CELL_SIZE)
             nxt == ScanCandidates(maps, checked, Candidates(table, cells, 1), 1,
                                   entity, ags, rr)
         IN  CacheLoop(nxt, checked, order, i + 1, ags, table, rr)

AwareEntities(ags) == {e \in DOMAIN ags : ags[e].aware}

build_spatial_neighbors_cache(ags, table, rr, order) ==
    [radii |-> rr,
     vec_of_maps |-> CacheLoop(SpatialNeighborsCacheNew(rr).vec_of_maps, {}, order, 1,
                               ags, table, rr)]

(* the widest tier that the distance still covers *)
TierIndexBelow(rr, distance) ==
    IF \E i \in DOMAIN rr : rr[i] <= distance
    THEN CHOOSE i \in DOMAIN rr :
            rr[i] <= distance /\ \A j \in (i + 1)..Len(rr) : rr[j] > distance
    ELSE 1

(* radii.iter().position(|r| r >= distance), or the last tier *)
TierIndex(rr, distance) ==
    IF \E i \in DOMAIN rr : rr[i] >= distance
    THEN CHOOSE i \in DOMAIN rr : rr[i] >= distance /\ \A j \in 1..(i - 1) : rr[j] < distance
    ELSE Len(rr)

None == [some |-> FALSE, ids |-> <<>>]

Some(ids) == [some |-> TRUE, ids |-> ids]

WithinDistanceUnsquared(d2, distance) == d2 <= distance

WithinDistanceStrict(d2, distance) == distance >= 0 /\ d2 < distance * distance

(* dist <= distance for a cached dist = sqrt(d2) *)
WithinDistance(d2, distance) == distance >= 0 /\ d2 <= distance * distance

get_neighbors(cache, entity, distance) ==
    LET index == TierIndex(cache.radii, distance)
    IN  IF index \in DOMAIN cache.vec_of_maps /\ entity \in DOMAIN cache.vec_of_maps[index]
        THEN LET vec == cache.vec_of_maps[index][entity]
                 kept == SelectSeq(vec, LAMBDA pair : WithinDistance(pair[2], distance))
             IN  Some([i \in DOMAIN kept |-> kept[i][1]])
        ELSE None

----------------------------------------------------------------------------
(* Inputs: terrains and agents *)

RowCells == {<<x, 0>> : x \in 0..(RowLen - 1)}

BlockCells == (0..(BlockSide - 1)) \X (0..(BlockSide - 1))

TileKinds == {Impassable, Pathable(MaxCost)}

TerrainsOf(cells, bounds, cell_size, outside) ==
    {[map |-> m, max_bounds |-> bounds, default_cell |-> Pathable(1),
      out_of_bounds_cell |-> o, cell_size |-> cell_size] :
        m \in UNION {[S -> TileKinds] : S \in {T \in SUBSET cells : Cardinality(T) <= MaxTiles}},
        o \in outside}

(* a row of cells of size 1 inside a pathable or impassable outside, and a  *)
(* square of cells of size 2 inside an impassable outside                   *)
Terrains ==
    TerrainsOf(RowCells, <<RowLen, 1>>, 1, {Impassable, Pathable(1)})
        \cup TerrainsOf(BlockCells, <<BlockSide, BlockSide>>, 2, {Impassable})

(* the rows without tiles *)
TickTerrains == {t \in Terrains : t.cell_size = 1 /\ t.map = <<>>}

InBoundsCells(t) == (0..(t.max_bounds[1] - 1)) \X (0..(t.max_bounds[2] - 1))

CornerOf(cell, t) == <<cell[1] * t.cell_size, cell[2] * t.cell_size>>

FriendPositions(t) ==
    IF t.cell_size = 1 THEN {CornerOf(c, t) : c \in InBoundsCells(t)}
    ELSE {CornerOf(<<0, 0>>, t), CornerOf(<<1, 0>>, t)}

(* in-bounds cells, and a cell outside the explored range (row) or a        *)
(* negative position (square)                                               *)
EnemyPositions(t) ==
    {CornerOf(c, t) : c \in InBoundsCells(t)}
        \cup (IF t.cell_size = 1 THEN {CornerOf(<<t.max_bounds[1] + 1, 0>>, t)} ELSE {<<-1, 1>>})

(* components of a unit: TeamAlignment, Position, Radius, and SpatialAwareness *)
(* when `aware`                                                              *)
Unit(tm, pos, r, aware, aw) ==
    [team |-> tm, pos |-> pos, nan |-> FALSE, r |-> r, aware |-> aware, aw |-> aw]

Agent(tm, pos) == Unit(tm, pos, 0, FALSE, 0)

(* an enumeration of a set of positions *)
SeqOf(S) == CHOOSE f \in [1..Cardinality(S) -> S] : Range(f) = S

(* entity 1 of the first team, then the entities of the second team *)
FlowAgents(t) ==
    {[e \in 1..(Cardinality(E) + 1) |->
        IF e = 1 THEN Agent(Team1, p) ELSE Agent(Team2, SeqOf(E)[e - 1])] :
        p \in FriendPositions(t),
        E \in {T \in SUBSET EnemyPositions(t) : T # {} /\ Cardinality(T) <= MaxEnemies}}

----------------------------------------------------------------------------
(* build_flow_fields as a state machine *)

FlowResting ==
    /\ alignment_to_cells = <<>>
    /\ todo = {}
    /\ team = NoTeam
    /\ open_queue = <<>>
    /\ integration_field = EmptyField
    /\ flow_field = EmptyField
    /\ relaxed_from = EmptyField
    /\ res_integration_field = EmptyField
    /\ res_flow_fields = EmptyField

FlowIdle == pc = "start" /\ FlowResting

IndexIdle ==
    /\ spatial = <<>>
    /\ radii = <<>>
    /\ neighbor_cache = <<>>

Init ==
    /\ terrain \in Terrains
    /\ agents \in FlowAgents(terrain)
    /\ FlowIdle
    /\ IndexIdle
    /\ clock = 0
    /\ published = <<>>
    /\ reply = NoReply

(* build_flow_fields returns at once unless the clock is a multiple of six *)
FlowDue(c) == c % REBUILD_INTERVAL = 0

CacheDueAlways(c) == TRUE

(* build_spatial_neighbors_cache: the same test *)
CacheDue(c) == c % REBUILD_INTERVAL = 0

(* the clock test and the partition of the agents' cells by alignment *)
Partition ==
    /\ pc = "start"
    /\ FlowDue(clock)
    /\ alignment_to_cells' = PartitionCells(agents, terrain)
    /\ todo' = DOMAIN alignment_to_cells'
    /\ pc' = "teams"
    /\ UNCHANGED <<terrain, agents, team, open_queue, integration_field, flow_field,
                   relaxed_from, res_integration_field, res_flow_fields,
                   indexVars, clock, published, reply>>

(* next alignment of the outer loop: its open set is drained into the queue *)
(* in the HashSet's order and the goal cells are zeroed                     *)
Seed ==
    /\ pc = "teams"
    /\ \E a \in todo :
         \E order \in Perms(OpenSet(alignment_to_cells, a)) :
            /\ team' = a
            /\ todo' = todo \ {a}
            /\ open_queue' = order
            /\ integration_field' = SeedField(integration_field, Range(order), a, 0)
            /\ relaxed_from' = [p \in DOMAIN relaxed_from \cup {<<c, a>> : c \in Range(order)} |->
                                  IF p[2] = a /\ p[1] \in Range(order) THEN p[1]
                                  ELSE relaxed_from[p]]
    /\ pc' = "propagate"
    /\ UNCHANGED <<terrain, agents, alignment_to_cells, flow_field,
                   res_integration_field, res_flow_fields, indexVars, clock, published, reply>>

(* one iteration of `while !open_queue.is_empty()` *)
Pop ==
    /\ pc = "propagate"
    /\ open_queue # <<>>
    /\ LET st == PopNode(integration_field, open_queue, relaxed_from, terrain, team)
       IN  /\ integration_field' = st.field
           /\ open_queue' = st.queue
           /\ relaxed_from' = st.from
    /\ UNCHANGED <<terrain, agents, pc, alignment_to_cells, todo, team, flow_field,
                   res_integration_field, res_flow_fields, indexVars, clock, published, reply>>

(* the queue is empty: the flow vectors of the alignment are stored *)
Extract ==
    /\ pc = "propagate"
    /\ open_queue = <<>>
    /\ flow_field' = BuildFlowOfTeam(flow_field, integration_field, team, terrain)
    /\ pc' = "teams"
    /\ UNCHANGED <<terrain, agents, alignment_to_cells, todo, team, open_queue,
                   integration_field, relaxed_from, res_integration_field,
                   res_flow_fields, indexVars, clock, published, reply>>

(* the fields are handed over after any alignment, not after the last *)
PublishInPlace ==
    /\ pc = "teams"
    /\ res_integration_field' = integration_field
    /\ res_flow_fields' = flow_field
    /\ pc' = "done"
    /\ UNCHANGED <<terrain, agents, alignment_to_cells, todo, team, open_queue,
                   integration_field, flow_field, relaxed_from, indexVars, clock, published,
                   reply>>

(* commands.insert_resource of both fields *)
Publish ==
    /\ pc = "teams"
    /\ todo = {}
    /\ res_integration_field' = integration_field
    /\ res_flow_fields' = flow_field
    /\ pc' = "done"
    /\ UNCHANGED <<terrain, agents, alignment_to_cells, todo, team, open_queue,
                   integration_field, flow_field, relaxed_from, indexVars, clock, published, reply>>

(* seek_enemies_boid, in the behaviour schedule that runs after the physics *)
(* schedule: a unit reads the flow vector of its cell and alignment from    *)
(* the inserted resource; `NaN as i32` is 0                                 *)
Seek ==
    /\ pc = "done"
    /\ \E entity \in DOMAIN agents :
         LET cell == IF agents[entity].nan THEN <<0, 0>>
                     ELSE get_point_spatial_hash(agents[entity].pos, terrain.cell_size)
         IN  reply' = [entity |-> entity,
                       cell |-> cell,
                       integration_field |-> res_integration_field,
                       flow_fields |-> res_flow_fields,
                       desired_velocity |->
                           normalized_or_zero(get_spatial_team_value(
                               res_flow_fields, cell, agents[entity].team, VecZero))]
    /\ pc' = "behaved"
    /\ UNCHANGED <<terrain, agents, alignment_to_cells, todo, team, open_queue,
                   integration_field, flow_field, relaxed_from, res_integration_field,
                   res_flow_fields, indexVars, clock, published>>

Next == Partition \/ Seed \/ Pop \/ Extract \/ Publish \/ Seek

Spec == Init /\ [][Next]_vars

----------------------------------------------------------------------------
(* build_flow_fields over units of every alignment, some at NaN positions *)

Alignments == {Team1, Team2, NeutralPassive, NeutralHostile}

AtNaN(unit, nan) == [unit EXCEPT !.nan = nan]

(* a unit of the first team in the first cell, a second unit of any         *)
(* alignment and possibly a third of another alignment, each in the second  *)
(* or third cell or at a NaN position                                       *)
FactionAgents(t) ==
    LET first == Agent(Team1, CornerOf(<<0, 0>>, t))
        places == {CornerOf(<<1, 0>>, t), CornerOf(<<2, 0>>, t)}
        second == {AtNaN(Agent(tm, q), n) : tm \in Alignments, q \in places, n \in BOOLEAN}
        third == {AtNaN(Agent(tm, q), n) :
                     tm \in Alignments \ {Team1}, q \in places, n \in BOOLEAN}
    IN  {<<first, b>> : b \in second} \cup {<<first, b, c>> : b \in second, c \in third}

InitFactions ==
    /\ terrain \in TickTerrains
    /\ agents \in FactionAgents(terrain)
    /\ FlowIdle
    /\ IndexIdle
    /\ clock = 0
    /\ published = <<>>
    /\ reply = NoReply

SpecFactions == InitFactions /\ [][Next]_vars

----------------------------------------------------------------------------
(* build_spatial_hash_table and build_spatial_neighbors_cache as a state    *)
(* machine over three units: entity 1 is A at the origin, entity 2 is B     *)
(* near it, entity 3 is C further away                                      *)

ProgramRadii == <<4, 16, 64, 256, 512>>

ScenarioRadii == <<4, 16, 64>>

UnitsA == {Unit(Team1, <<0, 0>>, r, TRUE, aw) : r \in {0, 30}, aw \in {10, 60}}

UnitsB ==
    {Unit(Team1, p, r, aware, 10) : p \in {<<5, 0>>, <<-3, -4>>}, r \in {0, 3}, aware \in BOOLEAN}

FarPositions == {<<50, 0>>, <<30, 40>>, <<-40, -30>>, <<7, -7>>, <<90, 0>>}

UnitsC ==
    {Unit(Team2, p, r, FALSE, 0) : p \in FarPositions, r \in {0, 30}}
        \cup {Unit(Team2, p, r, TRUE, aw) : p \in FarPositions, r \in {0, 30}, aw \in {10, 60}}

CacheAgents == {<<a, b, c>> : a \in UnitsA, b \in UnitsB, c \in UnitsC}

EmptyTerrain ==
    [map |-> <<>>, max_bounds |-> <<0, 0>>, default_cell |-> Impassable,
     out_of_bounds_cell |-> Impassable, cell_size |-> 0]

InitCache ==
    /\ terrain = EmptyTerrain
    /\ agents \in CacheAgents
    /\ radii \in {ScenarioRadii, ProgramRadii}
    /\ pc = "hash"
    /\ FlowResting
    /\ spatial = <<>>
    /\ neighbor_cache = <<>>
    /\ clock = 0
    /\ published = <<>>
    /\ reply = NoReply

BuildHashTable ==
    /\ pc = "hash"
    /\ spatial' = build_spatial_hash_table(agents)
    /\ pc' = "cache"
    /\ UNCHANGED <<terrain, agents, alignment_to_cells, todo, team, open_queue,
                   integration_field, flow_field, relaxed_from, res_integration_field,
                   res_flow_fields, radii, neighbor_cache, clock, published, reply>>

(* the outer query visits the aware entities in the order of the ECS storage *)
BuildCache ==
    /\ pc = "cache"
    /\ CacheDue(clock)
    /\ \E order \in Perms(AwareEntities(agents)) :
         neighbor_cache' = build_spatial_neighbors_cache(agents, spatial, radii, order)
    /\ pc' = "ready"
    /\ UNCHANGED <<terrain, agents, alignment_to_cells, todo, team, open_queue,
                   integration_field, flow_field, relaxed_from, res_integration_field,
                   res_flow_fields, spatial, radii, clock, published, reply>>

QueryDistances == {4, 10, 16, 60, 600}

(* the units, and an entity spawned after the build *)
QueryEntities(ags) == DOMAIN ags \cup {Len(ags) + 1}

(* a behaviour calls get_neighbors(&self, entity, distance) *)
Query ==
    /\ pc = "ready"
    /\ \E entity \in QueryEntities(agents), distance \in QueryDistances :
         reply' = [entity |-> entity, distance |-> distance,
                   result |-> get_neighbors(neighbor_cache, entity, distance)]
    /\ pc' = "queried"
    /\ UNCHANGED <<terrain, agents, alignment_to_cells, todo, team, open_queue,
                   integration_field, flow_field, relaxed_from, res_integration_field,
                   res_flow_fields, spatial, radii, neighbor_cache, clock, published>>

NextCache == BuildHashTable \/ BuildCache \/ Query

SpecCache == InitCache /\ [][NextCache]_vars

----------------------------------------------------------------------------
(* TerrainMap::get_cell on terrains whose map also has tiles out of bounds *)

LookupBounds == <<BlockSide, 1>>

(* coordinates around the bounds, on every side *)
LookupCoords == (-1..LookupBounds[1]) \X (-1..LookupBounds[2])

(* set_tile takes any coordinate: inside, at x = bounds.x, at y = bounds.y, *)
(* and negative ones                                                        *)
LookupTiles == {c \in LookupCoords : c[1] = 0 \/ c[2] = 0}

LookupTerrains ==
    {[map |-> m, max_bounds |-> LookupBounds, default_cell |-> Pathable(1),
      out_of_bounds_cell |-> o, cell_size |-> 1] :
        m \in UNION {[S -> TileKinds] : S \in {T \in SUBSET LookupTiles : Cardinality(T) <= MaxTiles}},
        o \in {Impassable, Pathable(1)}}

InitLookup ==
    /\ terrain \in LookupTerrains
    /\ agents = <<>>
    /\ pc = "lookup"
    /\ FlowResting
    /\ IndexIdle
    /\ clock = 0
    /\ published = <<>>
    /\ reply = NoReply

Lookup ==
    /\ pc = "lookup"
    /\ \E coords \in LookupCoords :
         reply' = [coords |-> coords, cell |-> get_cell(terrain, coords)]
    /\ pc' = "looked"
    /\ UNCHANGED <<terrain, agents, alignment_to_cells, todo, team, open_queue,
                   integration_field, flow_field, relaxed_from, res_integration_field,
                   res_flow_fields, indexVars, clock, published>>

NextLookup == Lookup

SpecLookup == InitLookup /\ [][NextLookup]_vars

----------------------------------------------------------------------------
(* build_flow_fields on a longer row, where cells have neighbours at grid   *)
(* distance 2 inside the range of get_convolution_neighbor_cells_increment  *)

RingCells == {<<x, 0>> : x \in 0..(RingLen - 1)}

(* the row with at most one tile set *)
RingTerrains ==
    {[map |-> m, max_bounds |-> <<RingLen, 1>>, default_cell |-> Pathable(1),
      out_of_bounds_cell |-> o, cell_size |-> 1] :
        m \in {<<>>} \cup {c :> k : c \in RingCells, k \in TileKinds},
        o \in {Impassable, Pathable(1)}}

(* one unit of each team, each in any cell of the row *)
RingAgents(t) ==
    {<<Agent(Team1, CornerOf(p, t)), Agent(Team2, CornerOf(q, t))>> :
        p \in InBoundsCells(t), q \in InBoundsCells(t)}

InitRings ==
    /\ terrain \in RingTerrains
    /\ agents \in RingAgents(terrain)
    /\ FlowIdle
    /\ IndexIdle
    /\ clock = 0
    /\ published = <<>>
    /\ reply = NoReply

SpecRings == InitRings /\ [][Next]_vars

----------------------------------------------------------------------------
(* build_flow_fields over movement costs that include 0 on pathable tiles   *)

CostKinds == {Impassable, Pathable(0), Pathable(MaxCost)}

(* the row with at most one tile set, any default cost and any outside *)
CostTerrains ==
    {[map |-> m, max_bounds |-> <<RowLen, 1>>, default_cell |-> d,
      out_of_bounds_cell |-> o, cell_size |-> 1] :
        m \in {<<>>} \cup {c :> k : c \in RowCells, k \in CostKinds},
        d \in {Pathable(0), Pathable(1)},
        o \in {Impassable, Pathable(0), Pathable(1)}}

InitCosts ==
    /\ terrain \in CostTerrains
    /\ agents \in FlowAgents(terrain)
    /\ FlowIdle
    /\ IndexIdle
    /\ clock = 0
    /\ published = <<>>
    /\ reply = NoReply

SpecCosts == InitCosts /\ [][Next]_vars

----------------------------------------------------------------------------
(* get_point_spatial_hash as a state machine: the cell of a unit's position *)
(* on a grid of the terrain's cell size                                     *)

HashCellSizes == {1, 2, 3}

HashPositions == (-HashSpan..HashSpan) \X (-HashSpan..HashSpan)

InitHash ==
    /\ terrain \in {[EmptyTerrain EXCEPT !.cell_size = cs] : cs \in HashCellSizes}
    /\ agents \in {<<Agent(Team1, p)>> : p \in HashPositions}
    /\ pc = "hash"
    /\ FlowResting
    /\ IndexIdle
    /\ clock = 0
    /\ published = <<>>
    /\ reply = NoReply

Hash ==
    /\ pc = "hash"
    /\ reply' = [point |-> agents[1].pos,
                 cell_size |-> terrain.cell_size,
                 cell |-> get_point_spatial_hash(agents[1].pos, terrain.cell_size)]
    /\ pc' = "hashed"
    /\ UNCHANGED <<terrain, agents, alignment_to_cells, todo, team, open_queue,
                   integration_field, flow_field, relaxed_from, res_integration_field,
                   res_flow_fields, indexVars, clock, published>>

NextHash == Hash

SpecHash == InitHash /\ [][NextHash]_vars

----------------------------------------------------------------------------
(* ECSWorld::_physics_process: one step of the physics schedule *)

(* `while !open_queue.is_empty()` run to its end *)
RECURSIVE Propagate(_, _, _, _)
Propagate(field, queue, t, tm) ==
    IF queue = <<>> THEN field
    ELSE LET st == PopNode(field, queue, EmptyField, t, tm)
         IN  Propagate(st.field, st.queue, t, tm)

(* one pass of the loop over the alignments *)
BuildTeamFields(fields, a2c, a, order, t) ==
    LET integ == Propagate(SeedField(fields.integration_field, Range(order), a, 0), order, t, a)
    IN  [integration_field |-> integ,
         flow_field |-> BuildFlowOfTeam(fields.flow_field, integ, a, t)]

(* the fields build_flow_fields can insert: one for every order of the      *)
(* alignments and every drain order of the open sets                        *)
RECURSIVE FlowRuns(_, _, _, _)
FlowRuns(fields, a2c, remaining, t) ==
    IF remaining = {} THEN {fields}
    ELSE UNION {UNION {FlowRuns(BuildTeamFields(fields, a2c, a, order, t),
                                a2c, remaining \ {a}, t) :
                          order \in Perms(OpenSet(a2c, a))} :
                   a \in remaining}

build_flow_fields(ags, t) ==
    LET a2c == PartitionCells(ags, t)
    IN  FlowRuns([integration_field |-> EmptyField, flow_field |-> EmptyField],
                 a2c, DOMAIN a2c, t)

(* an aware unit of the first team in one of the first two cells and a unit *)
(* of the second team anywhere on the row                                   *)
TickAgents(t) ==
    {<<Unit(Team1, p, 0, TRUE, 10), Unit(Team2, q, 0, FALSE, 0)>> :
        p \in {CornerOf(<<0, 0>>, t), CornerOf(<<1, 0>>, t)},
        q \in {CornerOf(c, t) : c \in InBoundsCells(t)}}

InitTick ==
    /\ terrain \in TickTerrains
    /\ agents \in TickAgents(terrain)
    /\ radii = ProgramRadii
    /\ pc = "tick"
    /\ FlowResting
    /\ spatial = <<>>
    /\ neighbor_cache = <<>>
    /\ clock = 0
    /\ published = <<>>
    /\ reply = NoReply

(* Clock(self.clock) is inserted, self.clock is incremented and the         *)
(* schedule runs: the units move, the hash table is rebuilt, and the cache  *)
(* and the fields are rebuilt when their clock test passes.  `published`    *)
(* records the inserted snapshots with the Clock value of their step.       *)
Tick ==
    /\ pc = "tick"
    /\ clock < MaxTicks
    /\ agents' \in TickAgents(terrain)
    /\ spatial' = build_spatial_hash_table(agents')
    /\ IF CacheDue(clock)
       THEN \E order \in Perms(AwareEntities(agents')) :
               neighbor_cache' = build_spatial_neighbors_cache(agents', spatial', radii, order)
       ELSE neighbor_cache' = neighbor_cache
    /\ IF FlowDue(clock)
       THEN \E fields \in build_flow_fields(agents', terrain) :
               /\ res_integration_field' = fields.integration_field
               /\ res_flow_fields' = fields.flow_field
       ELSE /\ res_integration_field' = res_integration_field
            /\ res_flow_fields' = res_flow_fields
    /\ published' =
         IF CacheDue(clock) \/ FlowDue(clock)
         THEN Append(published, [tick |-> clock,
                                 cache |-> neighbor_cache',
                                 integration_field |-> res_integration_field',
                                 flow_fields |-> res_flow_fields'])
         ELSE published
    /\ clock' = clock + 1
    /\ UNCHANGED <<terrain, pc, alignment_to_cells, todo, team, open_queue,
                   integration_field, flow_field, relaxed_from, radii, reply>>

NextTick == Tick

SpecTick == InitTick /\ [][NextTick]_vars

----------------------------------------------------------------------------
(* The stages of schedule_logic, one step each: the physics schedule with   *)
(* its stages "integrate", "apply" (build_spatial_hash_table),              *)
(* "detect_collisions" (build_spatial_neighbors_cache, build_flow_fields)   *)
(* and "resolve_collisions", then the behaviour schedule.  Commands are applied at the end of their   *)
(* stage.  `published` logs what was inserted or read, with the Clock value.*)

StageOrderCacheFirst ==
    <<"integrate", "detect_collisions", "apply", "resolve_collisions", "behavior">>

StageOrder == <<"integrate", "apply", "detect_collisions", "resolve_collisions", "behavior">>

StageAfter(stage) ==
    LET i == CHOOSE k \in DOMAIN StageOrder : StageOrder[k] = stage
    IN  IF i = Len(StageOrder) THEN "idle" ELSE StageOrder[i + 1]

(* the Clock resource of the running step: self.clock before its increment *)
ClockResource == clock - 1

Logged(resource) == Append(published, [tick |-> ClockResource, resource |-> resource])

InitStages ==
    /\ terrain \in TickTerrains
    /\ agents \in TickAgents(terrain)
    /\ radii = ProgramRadii
    /\ pc = "idle"
    /\ FlowResting
    /\ spatial = <<>>
    /\ neighbor_cache = <<>>
    /\ clock = 0
    /\ published = <<>>
    /\ reply = NoReply

(* _physics_process up to schedule_logic.run *)
BeginTick ==
    /\ pc = "idle"
    /\ clock < MaxTicks
    /\ clock' = clock + 1
    /\ pc' = StageOrder[1]
    /\ UNCHANGED <<terrain, agents, alignment_to_cells, todo, team, open_queue,
                   integration_field, flow_field, relaxed_from, res_integration_field,
                   res_flow_fields, indexVars, published, reply>>

(* physics_integrate moves the units *)
StageIntegrate ==
    /\ pc = "integrate"
    /\ agents' \in TickAgents(terrain)
    /\ pc' = StageAfter("integrate")
    /\ UNCHANGED <<terrain, alignment_to_cells, todo, team, open_queue,
                   integration_field, flow_field, relaxed_from, res_integration_field,
                   res_flow_fields, indexVars, clock, published, reply>>

StageApply ==
    /\ pc = "apply"
    /\ spatial' = build_spatial_hash_table(agents)
    /\ published' = Logged("SpatialHashTable")
    /\ pc' = StageAfter("apply")
    /\ UNCHANGED <<terrain, agents, alignment_to_cells, todo, team, open_queue,
                   integration_field, flow_field, relaxed_from, res_integration_field,
                   res_flow_fields, radii, neighbor_cache, clock, reply>>

StageDetectCollisions ==
    /\ pc = "detect_collisions"
    /\ IF CacheDue(ClockResource)
       THEN \E order \in Perms(AwareEntities(agents)) :
               neighbor_cache' = build_spatial_neighbors_cache(agents, spatial, radii, order)
       ELSE neighbor_cache' = neighbor_cache
    /\ IF FlowDue(ClockResource)
       THEN \E fields \in build_flow_fields(agents, terrain) :
               /\ res_integration_field' = fields.integration_field
               /\ res_flow_fields' = fields.flow_field
       ELSE /\ res_integration_field' = res_integration_field
            /\ res_flow_fields' = res_flow_fields
    /\ published' = IF CacheDue(ClockResource) THEN Logged("SpatialNeighborsCache")
                    ELSE published
    /\ pc' = StageAfter("detect_collisions")
    /\ UNCHANGED <<terrain, agents, alignment_to_cells, todo, team, open_queue,
                   integration_field, flow_field, relaxed_from, spatial, radii, clock, reply>>

(* resolve_collisions_iteration pushes the units apart *)
StageResolveCollisions ==
    /\ pc = "resolve_collisions"
    /\ agents' \in TickAgents(terrain)
    /\ pc' = StageAfter("resolve_collisions")
    /\ UNCHANGED <<terrain, alignment_to_cells, todo, team, open_queue,
                   integration_field, flow_field, relaxed_from, res_integration_field,
                   res_flow_fields, indexVars, clock, published, reply>>

(* a boid of the behaviour schedule asks for the neighbours of the aware unit *)
StageBehavior ==
    /\ pc = "behavior"
    /\ \E distance \in {radii[1], radii[2]} :
         reply' = [tick |-> ClockResource, entity |-> 1, distance |-> distance,
                   result |-> get_neighbors(neighbor_cache, 1, distance)]
    /\ published' = Logged("get_neighbors")
    /\ pc' = StageAfter("behavior")
    /\ UNCHANGED <<terrain, agents, alignment_to_cells, todo, team, open_queue,
                   integration_field, flow_field, relaxed_from, res_integration_field,
                   res_flow_fields, indexVars, clock>>

NextStages ==
    \/ BeginTick
    \/ StageIntegrate
    \/ StageApply
    \/ StageDetectCollisions
    \/ StageResolveCollisions
    \/ StageBehavior

SpecStages == InitStages /\ [][NextStages]_vars

----------------------------------------------------------------------------
(* Properties of the integration field *)

ExploredCells(t) == (-1..t.max_bounds[1]) \X (-1..t.max_bounds[2])

IsPathable(t, c) == get_cell(t, c).pathable_mask # 0

Adjacent(p, c) == p # c /\ Abs(p[1] - c[1]) <= 1 /\ Abs(p[2] - c[2]) <= 1

IsDiagonal(p, c) == Abs(p[1] - c[1]) = 1 /\ Abs(p[2] - c[2]) = 1

(* a step p -> c of an allowed path: c is pathable, and a diagonal step has *)
(* both orthogonal cells between p and c pathable                           *)
StepAllowed(t, p, c) ==
    /\ Adjacent(p, c)
    /\ IsPathable(t, c)
    /\ IsDiagonal(p, c) => IsPathable(t, <<c[1], p[2]>>) /\ IsPathable(t, <<p[1], c[2]>>)

MinOf(S) == CHOOSE x \in S : \A y \in S : x <= y

(* least accumulated movement cost from the goal cells, by relaxation to a  *)
(* fixed point over the explored cells and the goals                        *)
RECURSIVE LeastCost(_, _, _)
LeastCost(D, nodes, t) ==
    LET D2 == [c \in nodes |->
                MinOf({D[c]} \cup
                      {D[p] + get_cell(t, c).movement_cost :
                          p \in {q \in nodes : D[q] < F32_MAX /\ StepAllowed(t, q, c)}})]
    IN  IF D2 = D THEN D ELSE LeastCost(D2, nodes, t)

Goals(tm) == OpenSet(alignment_to_cells, tm)

ReferenceCost(tm) ==
    LET nodes == ExploredCells(terrain) \cup Goals(tm)
    IN  LeastCost([c \in nodes |-> IF c \in Goals(tm) THEN 0 ELSE F32_MAX], nodes, terrain)

Value(tm, c) == get_spatial_team_value(integration_field, c, tm, F32_MAX)

(* the wavefront of alignment tm has run to an empty queue *)
Propagated(tm) ==
    /\ pc # "start"
    /\ tm \in DOMAIN alignment_to_cells
    /\ tm \notin todo
    /\ tm = team => open_queue = <<>>

(* the queue of alignment tm has just run empty *)
Converged(tm) == pc = "propagate" /\ team = tm /\ open_queue = <<>>

(* the flow vectors of alignment tm are stored *)
Extracted(tm) ==
    /\ Propagated(tm)
    /\ tm = team => pc # "propagate"

(* C1: when the propagation of an alignment has finished, every pathable    *)
(* cell of the explored grid holds the least accumulated movement cost over *)
(* the allowed paths from the cells of its enemies, and MAX when there is   *)
(* no such path.                                                            *)
C1_MinimumCost ==
    \A tm \in {Team1, Team2} :
        Converged(tm) =>
            LET ref == ReferenceCost(tm)
            IN  \A c \in ExploredCells(terrain) :
                    IsPathable(terrain, c) => Value(tm, c) = ref[c]

(* the same statement for placements whose goal cells are all pathable *)
C1_MinimumCostPathableGoals ==
    \A tm \in {Team1, Team2} :
        (Converged(tm) /\ \A g \in Goals(tm) : IsPathable(terrain, g)) =>
            LET ref == ReferenceCost(tm)
            IN  \A c \in ExploredCells(terrain) :
                    IsPathable(terrain, c) => Value(tm, c) = ref[c]

(* C2: with the queue empty, no pathable cell C with a finite value can     *)
(* lower a pathable neighbour N it is allowed to step to:                   *)
(* v(N) <= v(C) + movement_cost(N).                                         *)
C2_NoFurtherRelaxation ==
    \A tm \in {Team1, Team2} :
        Converged(tm) =>
            \A C \in ExploredCells(terrain) \cup Goals(tm) :
                (IsPathable(terrain, C) /\ Value(tm, C) < F32_MAX) =>
                    \A N \in ExploredCells(terrain) :
                        StepAllowed(terrain, C, N) =>
                            Value(tm, N) <= Value(tm, C) + get_cell(terrain, N).movement_cost

(* a finished propagation that lowered a cell two steps away from a goal *)
C2_Witness ==
    /\ Converged(Team1)
    /\ \E c \in ExploredCells(terrain) :
          /\ IsPathable(terrain, c)
          /\ Value(Team1, c) < F32_MAX
          /\ Value(Team1, c) >= 2
          /\ \A g \in Goals(Team1) : ~Adjacent(g, c)

(* C3: a value never derives from a diagonal step past an impassable        *)
(* orthogonal neighbour: the cell D was last lowered from is never a        *)
(* diagonal neighbour C with <<D.x, C.y>> or <<C.x, D.y>> impassable.       *)
C3_NoCornerCutting ==
    \A p \in DOMAIN relaxed_from :
        LET D == p[1]
            C == relaxed_from[p]
        IN  IsDiagonal(C, D) =>
                IsPathable(terrain, <<D[1], C[2]>>) /\ IsPathable(terrain, <<C[1], D[2]>>)

(* the 3x3 block of the claim: a goal at (0,0), both (1,0) and (0,1)        *)
(* impassable, the diagonal (1,1) pathable and left unreached               *)
C3_Witness ==
    /\ Propagated(Team1)
    /\ Goals(Team1) = {<<0, 0>>}
    /\ ~IsPathable(terrain, <<1, 0>>)
    /\ ~IsPathable(terrain, <<0, 1>>)
    /\ IsPathable(terrain, <<1, 1>>)
    /\ Value(Team1, <<1, 1>>) = F32_MAX
    /\ pc = "done"

----------------------------------------------------------------------------
(* End-to-end scenarios of the flow field *)

Flow(tm, c) == get_spatial_team_value(flow_field, c, tm, VecZero)

UnitX == 1 :> <<1, 0>>

RowOfThree(tiles) ==
    /\ terrain.max_bounds = <<3, 1>>
    /\ terrain.cell_size = 1
    /\ terrain.default_cell = Pathable(1)
    /\ terrain.map = tiles
    /\ agents = <<Agent(Team1, <<0, 0>>), Agent(Team2, <<2, 0>>)>>

Scenario1 == RowOfThree(<<>>)

Scenario2 ==
    /\ RowOfThree(<<1, 0>> :> Impassable)
    /\ terrain.out_of_bounds_cell = Impassable

(* C8: in the row of three pathable cells of cost 1 with team A at (0,0)    *)
(* and team B at (2,0), team A's integration values are 0 at (2,0), 1 at    *)
(* (1,0) and 2 at (0,0), and its flow vector at (0,0) is (+1, 0).           *)
C8_Scenario1 ==
    Scenario1 =>
        /\ Propagated(Team1) =>
              /\ Value(Team1, <<2, 0>>) = 0
              /\ Value(Team1, <<1, 0>>) = 1
              /\ Value(Team1, <<0, 0>>) = 2
        /\ Extracted(Team1) => Flow(Team1, <<0, 0>>) = UnitX
        /\ pc = "done" =>
              /\ get_spatial_team_value(res_integration_field, <<0, 0>>, Team1, F32_MAX) = 2
              /\ get_spatial_team_value(res_flow_fields, <<0, 0>>, Team1, VecZero) = UnitX

C8_Witness ==
    /\ Scenario1
    /\ pc = "done"
    /\ <<<<0, 0>>, Team1>> \in DOMAIN res_flow_fields

(* C9: in the same row with (1,0) impassable, team A's integration value at *)
(* (0,0) is MAX and its flow vector at (0,0) is the zero vector, whichever  *)
(* alignment the outer loop visits first.                                   *)
C9_Scenario2 ==
    Scenario2 =>
        /\ Propagated(Team1) => Value(Team1, <<0, 0>>) = F32_MAX
        /\ Extracted(Team1) => Flow(Team1, <<0, 0>>) = VecZero
        /\ pc = "done" =>
              /\ get_spatial_team_value(res_integration_field, <<0, 0>>, Team1, F32_MAX) = F32_MAX
              /\ get_spatial_team_value(res_flow_fields, <<0, 0>>, Team1, VecZero) = VecZero

(* team B was visited first, so team A's extraction met the key (0,0) *)
C9_Witness ==
    /\ Scenario2
    /\ pc = "done"
    /\ <<<<0, 0>>, Team1>> \in DOMAIN res_flow_fields

----------------------------------------------------------------------------
(* Properties of the hash table and of the neighbor cache *)

TableBuilt == pc \in {"cache", "ready"}

Ready == pc = "ready"

CentreDistanceSquared(a, b) ==
    (agents[a].pos[1] - agents[b].pos[1]) * (agents[a].pos[1] - agents[b].pos[1])
        + (agents[a].pos[2] - agents[b].pos[2]) * (agents[a].pos[2] - agents[b].pos[2])

CirclesOverlap(a, b) ==
    CentreDistanceSquared(a, b) <= (agents[a].r + agents[b].r) * (agents[a].r + agents[b].r)

ShareBucket(a, b) ==
    \E cell \in DOMAIN spatial : Contains(spatial[cell], a) /\ Contains(spatial[cell], b)

TierList(i, a) ==
    IF a \in DOMAIN neighbor_cache.vec_of_maps[i] THEN neighbor_cache.vec_of_maps[i][a] ELSE <<>>

QueryRadii == {0, 3, 4, 5, 10, 16, 20, 50, 60, 64}

LargestTier == radii[Len(radii)]

Ids(result) == Range(result.ids)

(* C4: after the cache is built, whenever (B, d) is in A's list of a tier,  *)
(* (A, d) with the same distance is in B's list of that tier.               *)
C4_NeighborSymmetry ==
    Ready =>
        \A i \in DOMAIN neighbor_cache.vec_of_maps :
            \A a \in DOMAIN neighbor_cache.vec_of_maps[i] :
                \A k \in DOMAIN TierList(i, a) :
                    LET pair == TierList(i, a)[k]
                    IN  Contains(TierList(i, pair[1]), <<a, pair[2]>>)

(* A has found C, at a positive distance, in the widest scenario tier *)
C4_Witness ==
    /\ Ready
    /\ \E d \in 1..4096 : Contains(TierList(3, 1), <<3, d>>)

(* C5: for radii r1 < r2 not above the largest tier, a list returned by     *)
(* get_neighbors(A, r1) comes with a list returned by get_neighbors(A, r2) *)
(* that has all of its ids.                                                 *)
C5_TierMonotonicity ==
    Ready =>
        \A e \in DOMAIN agents :
            \A r1 \in QueryRadii, r2 \in QueryRadii :
                (r1 < r2 /\ r2 <= LargestTier /\ get_neighbors(neighbor_cache, e, r1).some)
                    => /\ get_neighbors(neighbor_cache, e, r2).some
                       /\ Ids(get_neighbors(neighbor_cache, e, r1))
                            \subseteq Ids(get_neighbors(neighbor_cache, e, r2))

(* a query answered from tier 16 is a strict part of one answered from 64 *)
C5_Witness ==
    /\ Ready
    /\ Ids(get_neighbors(neighbor_cache, 1, 10)) = {2}
    /\ Ids(get_neighbors(neighbor_cache, 1, 60)) = {2, 3}

(* C6: once the hash table is built, two agents whose bounding circles      *)
(* overlap, at negative coordinates too, share at least one bucket.         *)
C6_BucketSoundness ==
    TableBuilt =>
        \A a \in DOMAIN agents, b \in DOMAIN agents :
            (a # b /\ CirclesOverlap(a, b)) => ShareBucket(a, b)

(* overlapping circles whose centres lie in different cells, one of them at *)
(* negative coordinates                                                     *)
C6_Witness ==
    /\ TableBuilt
    /\ agents[3].pos = <<-40, -30>>
    /\ CirclesOverlap(1, 3)
    /\ ShareBucket(1, 3)

Scenario3 ==
    /\ Ready
    /\ radii = ScenarioRadii
    /\ agents[1].pos = <<0, 0>>
    /\ agents[1].aw = 10
    /\ CentreDistanceSquared(1, 2) = 5 * 5
    /\ CentreDistanceSquared(1, 3) = 50 * 50

FarQuery == get_neighbors(neighbor_cache, 1, 60)

(* the body of `b` lies in a bucket that the awareness square of `a` visits *)
Reaches(a, b) ==
    /\ agents[a].aware
    /\ Range(get_all_spatial_hashes_from_circle(agents[a].pos, agents[a].aw, HASH_CELL_SIZE))
         \cap Range(get_all_spatial_hashes_from_circle(agents[b].pos, agents[b].r, HASH_CELL_SIZE))
            # {}

(* C10 as stated: in scenario 3 get_neighbors(A, 60) returns both B and C. *)
C10_FarQueryReturnsBoth ==
    Scenario3 => FarQuery.some /\ {2, 3} \subseteq Ids(FarQuery)

(* C10 as amended: in scenario 3 get_neighbors(A, 60) reads tier 64 and     *)
(* returns B; C is returned only if one of A and C reaches the other        *)
(* through the buckets of its awareness square, and is returned whenever    *)
(* A reaches C and C has no awareness radius or reaches A as well.          *)
C10_FarQueryWithinAwareness ==
    Scenario3 =>
        /\ radii[TierIndex(radii, 60)] = 64
        /\ FarQuery.some
        /\ 2 \in Ids(FarQuery)
        /\ Ids(FarQuery) \subseteq {2, 3}
        /\ 3 \in Ids(FarQuery) => (Reaches(1, 3) \/ Reaches(3, 1))
        /\ (Reaches(1, 3) /\ (~agents[3].aware \/ Reaches(3, 1))) => 3 \in Ids(FarQuery)

(* scenario 3 with C wide enough to lie in A's bucket: both are returned *)
C10_Witness ==
    /\ Scenario3
    /\ ~agents[3].aware
    /\ Reaches(1, 3)
    /\ Ids(FarQuery) = {2, 3}

----------------------------------------------------------------------------
(* Properties of the physics step *)

Snapshot ==
    [cache |-> neighbor_cache,
     integration_field |-> res_integration_field,
     flow_fields |-> res_flow_fields]

SnapshotOf(p) ==
    [cache |-> p.cache, integration_field |-> p.integration_field, flow_fields |-> p.flow_fields]

(* after `clock` steps the snapshots are those of the steps 0, 6, ..., and  *)
(* the resources hold the last of them                                      *)
CadenceSoFar ==
    pc = "tick" =>
        /\ Len(published) = (clock + 5) \div 6
        /\ \A i \in DOMAIN published : published[i].tick = 6 * (i - 1)
        /\ clock = 12 => [i \in DOMAIN published |-> published[i].tick] = <<0, 6>>
        /\ clock > 0 => Snapshot = SnapshotOf(published[Len(published)])

(* a step whose Clock value is not a multiple of six *)
SkippedStep == pc = "tick" /\ clock % 6 # 0 /\ clock' = clock + 1

(* C7: the cache and the fields are rebuilt exactly on the steps whose      *)
(* counter is a multiple of six: over steps 0..11 two snapshots are         *)
(* published, at 0 and at 6, and every other step leaves the published      *)
(* cache and fields as they were.                                           *)
C7_RecomputationCadence ==
    /\ []CadenceSoFar
    /\ [][SkippedStep =>
            /\ neighbor_cache' = neighbor_cache
            /\ res_integration_field' = res_integration_field
            /\ res_flow_fields' = res_flow_fields
            /\ published' = published]_vars

(* twelve steps done, the units moved: two different snapshots, the second  *)
(* still in place                                                           *)
C7_Witness ==
    /\ pc = "tick"
    /\ clock = 12
    /\ Len(published) = 2
    /\ published[1].cache # published[2].cache
    /\ published[1].flow_fields # published[2].flow_fields
    /\ Snapshot = SnapshotOf(published[2])

----------------------------------------------------------------------------
(* Properties of get_neighbors *)

Queried == pc = "queried"

TrueDistanceSquared(a, b) ==
    CentreDistanceSquared(a, b) - (agents[a].r + agents[b].r) * (agents[a].r + agents[b].r)

(* scenario 3, the distances being those the cache measures, and            *)
(* get_neighbors(A, q) answered                                             *)
Scenario3Asked(q) ==
    /\ Queried
    /\ radii = ScenarioRadii
    /\ agents[1].pos = <<0, 0>>
    /\ agents[1].aware
    /\ agents[1].aw = 10
    /\ TrueDistanceSquared(1, 2) = 5 * 5
    /\ TrueDistanceSquared(1, 3) = 50 * 50
    /\ reply.entity = 1
    /\ reply.distance = q

(* C11: in scenario 3 get_neighbors(A, 10) reads tier 16 and returns        *)
(* exactly B.                                                               *)
C11_NearQuery ==
    Scenario3Asked(10) =>
        /\ radii[TierIndex(radii, 10)] = 16
        /\ reply.result = Some(<<2>>)

(* the near query answered while C is in A's list of tier 64 *)
C11_Witness ==
    /\ Scenario3Asked(10)
    /\ Contains(TierList(3, 1), <<3, 50 * 50>>)
    /\ reply.result = Some(<<2>>)

SetMin(S) == CHOOSE x \in S : \A y \in S : x <= y

SetMax(S) == CHOOSE x \in S : \A y \in S : x >= y

(* the tier of the smallest radius that is at least q, or of the largest *)
ExpectedTier(q) ==
    LET fit == {radii[i] : i \in {j \in DOMAIN radii : radii[j] >= q}}
        wanted == IF fit = {} THEN SetMax(Range(radii)) ELSE SetMin(fit)
    IN  CHOOSE i \in DOMAIN radii : radii[i] = wanted

AnsweredExactly ==
    Queried =>
        LET list == TierList(ExpectedTier(reply.distance), reply.entity)
            q == reply.distance
            near == {k \in DOMAIN list : list[k][2] <= q * q}
        IN  reply.entity \in DOMAIN neighbor_cache.vec_of_maps[ExpectedTier(q)] =>
                /\ reply.result.some
                /\ Ids(reply.result) = {list[k][1] : k \in near}
                /\ Len(reply.result.ids) = Cardinality(near)

(* C12: get_neighbors reads the tier of the smallest radius >= distance,    *)
(* or the largest tier, returns exactly the ids of that list's pairs with   *)
(* d <= distance when the agent has a list there, and leaves the cache as   *)
(* it was.                                                                  *)
C12_GetNeighborsExact ==
    /\ []AnsweredExactly
    /\ [][pc' = "queried" => neighbor_cache' = neighbor_cache]_vars

(* an answer that kept part of the list and dropped the rest *)
C12_Witness ==
    /\ Queried
    /\ reply.result.some
    /\ reply.result.ids # <<>>
    /\ Len(reply.result.ids) < Len(TierList(ExpectedTier(reply.distance), reply.entity))

(* C13: an agent with an awareness radius that the last build processed     *)
(* gets a list, possibly empty, for every query, never `None`; `None` is    *)
(* the answer for an agent without a list in the tier.                      *)
C13_NoDataMeansAbsent ==
    Queried =>
        /\ (reply.entity \in DOMAIN agents /\ agents[reply.entity].aware) => reply.result.some
        /\ reply.entity \notin DOMAIN neighbor_cache.vec_of_maps[ExpectedTier(reply.distance)]
              => reply.result = None

InBucketsOfSquare(e) ==
    \A cell \in Range(get_all_spatial_hashes_from_circle(agents[e].pos, agents[e].r,
                                                         HASH_CELL_SIZE)) :
        cell \in DOMAIN spatial /\ Contains(spatial[cell], e)

HasNoList(e) == \A i \in DOMAIN neighbor_cache.vec_of_maps : TierList(i, e) = <<>>

Unaware == {e \in DOMAIN agents : ~agents[e].aware}

(* C18 as stated: after a build an agent without an awareness radius has    *)
(* no list in any tier and get_neighbors answers `None` for it, while it is *)
(* in the bucket of every cell its bounding square overlaps.                *)
C18_UnawareExcluded ==
    Ready =>
        \A e \in Unaware :
            /\ HasNoList(e)
            /\ \A q \in QueryDistances : get_neighbors(neighbor_cache, e, q) = None
            /\ InBucketsOfSquare(e)

(* C18 as amended: an agent without an awareness radius is never the        *)
(* scanning side of a pair: its lists name only aware agents whose          *)
(* awareness square reaches one of its buckets, it has no list and gets     *)
(* `None` when no aware agent reaches it, and it is in the bucket of every  *)
(* cell its bounding square overlaps.                                       *)
C18_UnawareOnlyFound ==
    Ready =>
        \A e \in Unaware :
            /\ \A i \in DOMAIN neighbor_cache.vec_of_maps :
                  \A k \in DOMAIN TierList(i, e) : Reaches(TierList(i, e)[k][1], e)
            /\ (\A a \in DOMAIN agents : ~Reaches(a, e)) =>
                  /\ HasNoList(e)
                  /\ \A q \in QueryDistances : get_neighbors(neighbor_cache, e, q) = None
            /\ InBucketsOfSquare(e)

(* B without awareness was found by A; C without awareness, in two buckets, *)
(* was found by nobody                                                      *)
C18_Witness ==
    /\ Ready
    /\ Unaware = {2, 3}
    /\ ~HasNoList(2)
    /\ HasNoList(3)
    /\ agents[3].r > 0
    /\ InBucketsOfSquare(3)

----------------------------------------------------------------------------
(* Properties of TerrainMap::get_cell *)

InsideBounds(c) ==
    /\ c[1] \in 0..(terrain.max_bounds[1] - 1)
    /\ c[2] \in 0..(terrain.max_bounds[2] - 1)

(* C14: get_cell answers every coordinate: out_of_bounds_cell outside       *)
(* [0, bounds) on either axis, even where the map has a tile, and inside    *)
(* the stored tile if there is one, default_cell otherwise.                 *)
C14_GetCellTotal ==
    pc = "looked" =>
        /\ ~InsideBounds(reply.coords) => reply.cell = terrain.out_of_bounds_cell
        /\ (InsideBounds(reply.coords) /\ reply.coords \in DOMAIN terrain.map)
              => reply.cell = terrain.map[reply.coords]
        /\ (InsideBounds(reply.coords) /\ reply.coords \notin DOMAIN terrain.map)
              => reply.cell = terrain.default_cell

(* a lookup out of bounds at a coordinate that has a tile of another kind *)
C14_Witness ==
    /\ pc = "looked"
    /\ ~InsideBounds(reply.coords)
    /\ reply.coords \in DOMAIN terrain.map
    /\ terrain.map[reply.coords] # terrain.out_of_bounds_cell
    /\ reply.cell = terrain.out_of_bounds_cell

----------------------------------------------------------------------------
(* Properties of the partition and of the goal seeds *)

Factions == {agents[e].team : e \in DOMAIN agents}

Partitioned == pc # "start"

(* the cells of the units of an alignment that have a position *)
PlacedCells(tms) ==
    {get_point_spatial_hash(agents[e].pos, terrain.cell_size) :
        e \in {x \in DOMAIN agents : agents[x].team \in tms /\ ~agents[x].nan}}

(* the cells that were given the value 0 when the queue of tm was filled *)
SeededCells(tm) ==
    {p[1] : p \in {q \in DOMAIN relaxed_from : q[2] = tm /\ relaxed_from[q] = q[1]}}

HasBeenSeeded(tm) ==
    /\ Partitioned
    /\ tm \in DOMAIN alignment_to_cells
    /\ tm \notin todo

(* C15: with units of one faction only, the open set is empty, no cell is   *)
(* given a finite integration value, and every lookup of the faction's      *)
(* flow vector is the zero vector.                                          *)
C15_ZeroEnemies ==
    Cardinality(Factions) = 1 =>
        /\ pc = "propagate" => open_queue = <<>>
        /\ \A p \in DOMAIN integration_field : integration_field[p] >= F32_MAX
        /\ \A p \in DOMAIN res_integration_field : res_integration_field[p] >= F32_MAX
        /\ pc \in {"done", "behaved"} =>
              \A c \in ExploredCells(terrain), tm \in Factions :
                  get_spatial_team_value(res_flow_fields, c, tm, VecZero) = VecZero
        /\ pc = "behaved" => reply.desired_velocity = VecZero

(* two units of the one faction, the fields inserted, one unit steered *)
C15_Witness ==
    /\ Cardinality(Factions) = 1
    /\ Len(agents) = 2
    /\ ~agents[2].nan
    /\ pc = "behaved"
    /\ reply.desired_velocity = VecZero

(* C16: a unit at a NaN position adds no cell to the cells of its faction,  *)
(* so it seeds no goal for another faction.  That the build then goes on to *)
(* its end is what the witness reaches.                                     *)
C16_NaNSkipped ==
    /\ Partitioned =>
          \A a \in DOMAIN alignment_to_cells : alignment_to_cells[a] = PlacedCells({a})
    /\ \A tm \in Factions :
          HasBeenSeeded(tm) => SeededCells(tm) = PlacedCells(Factions \ {tm})

(* the only unit of a faction is at NaN: the faction has no cell, the other *)
(* one no goal, and the fields are inserted                                 *)
C16_Witness ==
    /\ pc = "done"
    /\ Len(agents) = 2
    /\ agents[2].nan
    /\ agents[2].team = Team2
    /\ alignment_to_cells[Team2] = {}
    /\ SeededCells(Team1) = {}

(* C17: the cells seeded for a faction are those of the units of the other  *)
(* numbered teams and of NeutralHostile; a cell that only NeutralPassive    *)
(* units occupy is never seeded.                                            *)
C17_NeutralPassiveNeverSeeds ==
    \A tm \in Factions :
        HasBeenSeeded(tm) =>
            SeededCells(tm) = PlacedCells(Factions \ {tm, NeutralPassive})

----------------------------------------------------------------------------
(* Properties of the insertion of the fields *)

(* the fields a build of the present units can end with *)
CompleteBuilds == build_flow_fields(agents, terrain)

Inserted == [integration_field |-> res_integration_field, flow_field |-> res_flow_fields]

NothingInserted == [integration_field |-> EmptyField, flow_field |-> EmptyField]

BuiltAside == [integration_field |-> integration_field, flow_field |-> flow_field]

(* every alignment has had its pass, and its goal cells have their entries *)
AllAlignmentsDone ==
    /\ todo = {}
    /\ open_queue = <<>>
    /\ \A a \in DOMAIN alignment_to_cells :
          \A c \in OpenSet(alignment_to_cells, a) : <<c, a>> \in DOMAIN res_integration_field

WholeSnapshots ==
    /\ pc \in {"start", "teams", "propagate"} => Inserted = NothingInserted
    /\ pc \in {"done", "behaved"} => Inserted = BuiltAside /\ AllAlignmentsDone
    /\ (pc = "done" /\ Cardinality(Factions) <= 2) => Inserted \in CompleteBuilds
    /\ pc = "behaved" =>
          [integration_field |-> reply.integration_field, flow_field |-> reply.flow_fields]
              = Inserted

----------------------------------------------------------------------------
(* Properties of the order of the stages *)

LoggedBefore(i, resource) ==
    \E j \in 1..(i - 1) :
        published[j] = [tick |-> published[i].tick, resource |-> resource]

(* C20: whenever the neighbor cache is rebuilt, the hash table has been     *)
(* rebuilt and inserted earlier in the same step, and the behaviours of a   *)
(* step that rebuilds the cache read it after the rebuild.                  *)
C20_TableBeforeCache ==
    /\ \A i \in DOMAIN published :
          /\ published[i].resource = "SpatialNeighborsCache"
                => LoggedBefore(i, "SpatialHashTable")
          /\ (published[i].resource = "get_neighbors" /\ published[i].tick % 6 = 0)
                => LoggedBefore(i, "SpatialNeighborsCache")
    /\ (pc = "detect_collisions" /\ ClockResource % 6 = 0) =>
          /\ published # <<>>
          /\ published[Len(published)] = [tick |-> ClockResource, resource |-> "SpatialHashTable"]
          /\ spatial = build_spatial_hash_table(agents)

(* the seventh step is over: the cache was rebuilt in it, after the table,  *)
(* and read                                                                 *)
C20_Witness ==
    /\ pc = "idle"
    /\ clock = 7
    /\ reply.tick = 6
    /\ reply.result = Some(<<2>>)
    /\ Len(SelectSeq(published, LAMBDA e : e.resource = "SpatialNeighborsCache")) = 2


----------------------------------------------------------------------------
(* Properties of the stored flow vectors *)

StoredVectors(field) == {field[p] : p \in DOMAIN field}

(* the zero vector, or a unit vector: what normalized_or_zero returns for a *)
(* vector without NaN, and leaves as it is                                  *)
ZeroOrUnit(v) == v # VecNaN /\ normalized_or_zero(v) = v

(* C21: every flow vector stored by build_flow_fields, in the field being   *)
(* built and in the inserted resource, is the zero vector or a unit vector  *)
(* and never NaN, whatever the terrain, the placement of the agents and the *)
(* integration values around the cell (0 clamped to the floor, or MAX).     *)
C21_StoredVectorsNormalised ==
    \A v \in StoredVectors(flow_field) \cup StoredVectors(res_flow_fields) : ZeroOrUnit(v)

(* a finished build that stored a unit vector for a cell next to a goal     *)
(* cell of value 0, and a zero vector for a cell whose value is MAX         *)
C21_Witness ==
    /\ pc = "done"
    /\ \E c \in FieldKeys(integration_field) :
          /\ <<c, Team1>> \in DOMAIN res_flow_fields
          /\ res_flow_fields[<<c, Team1>>] \notin {VecZero, VecNaN}
          /\ get_orthognal_neighbor_cells(c, terrain.max_bounds) # <<>>
          /\ \A i \in DOMAIN get_orthognal_neighbor_cells(c, terrain.max_bounds) :
                IsPathable(terrain, get_orthognal_neighbor_cells(c, terrain.max_bounds)[i])
          /\ \E g \in Goals(Team1) :
                Adjacent(g, c) /\ IsPathable(terrain, g) /\ Value(Team1, g) = 0
    /\ \E c \in FieldKeys(integration_field) :
          /\ <<c, Team1>> \in DOMAIN res_flow_fields
          /\ Value(Team1, c) = F32_MAX
          /\ res_flow_fields[<<c, Team1>>] = VecZero


----------------------------------------------------------------------------
(* Properties of the goal cells *)

(* C22: when the propagation of an alignment has finished, every cell       *)
(* occupied by an agent of another alignment has integration value 0 for   *)
(* it, whatever tile lies under the cell and whatever the order of the      *)
(* queue.                                                                   *)
C22_GoalsKeepZero ==
    \A tm \in {Team1, Team2} :
        Converged(tm) => \A g \in Goals(tm) : Value(tm, g) = 0

(* the same statement for the goal cells on pathable tiles *)
C22_PathableGoalsKeepZero ==
    \A tm \in {Team1, Team2} :
        Converged(tm) =>
            \A g \in Goals(tm) : IsPathable(terrain, g) => Value(tm, g) = 0


(* C23: a flow vector is computed only for the cells with a finite positive *)
(* integration value: once the vectors of an alignment are stored, a cell   *)
(* whose value for it is 0 (a goal) or MAX (unreached, blocked, impassable, *)
(* or recorded by another alignment only) has the zero vector or none.      *)
C23_FlowOnlyForReachedCells ==
    \A tm \in {Team1, Team2} :
        Extracted(tm) =>
            \A c \in FieldKeys(integration_field) :
                (Value(tm, c) = 0 \/ Value(tm, c) >= F32_MAX) => Flow(tm, c) = VecZero

(* the part of the statement about the cells of value 0 *)
C23_NoFlowForGoalValue ==
    \A tm \in {Team1, Team2} :
        Extracted(tm) =>
            \A c \in FieldKeys(integration_field) :
                Value(tm, c) = 0 => <<c, tm>> \notin DOMAIN flow_field


----------------------------------------------------------------------------
(* Properties of get_point_spatial_hash *)

Hashed == pc = "hashed"

(* floor(a / b) for b > 0 *)
FloorDiv(a, b) == a \div b

(* C24: get_point_spatial_hash maps a position to the cell                  *)
(* (floor(x / cell_size), floor(y / cell_size)), for negative coordinates   *)
(* too: x in (-cell_size, 0) gives cell -1, not 0.                          *)
C24_HashIsFloor ==
    Hashed =>
        reply.cell = <<FloorDiv(reply.point[1], reply.cell_size),
                       FloorDiv(reply.point[2], reply.cell_size)>>

(* the same statement for the positions without a negative coordinate *)
C24_HashIsFloorFromZero ==
    (Hashed /\ reply.point[1] >= 0 /\ reply.point[2] >= 0) =>
        reply.cell = <<FloorDiv(reply.point[1], reply.cell_size),
                       FloorDiv(reply.point[2], reply.cell_size)>>


----------------------------------------------------------------------------
(* Properties of the gradient extraction *)

(* the vectors of alignment tm have just been stored *)
JustExtracted(tm) == pc = "teams" /\ team = tm

(* the scan of the 8 cells at grid distance 1 *)
RingOneScan(field, cell, tm, t) ==
    LET sc0 == [obstacle_x |-> <<>>, obstacle_y |-> <<>>, min_node |-> <<0, 0>>,
                min_integration_val |-> F32_MAX, terms |-> <<>>]
        sc1 == FlowOrthLoop(sc0, get_orthognal_neighbor_cells(cell, t.max_bounds), 1,
                            cell, field, tm, t)
    IN  FlowDiagLoop(sc1, get_diagonal_neighbor_cells(cell, t.max_bounds), 1,
                     cell, field, tm, t)

RingOf(cell, k, t) == get_convolution_neighbor_cells_increment(cell, k, t.max_bounds)

RingHasObstacle(cell, k, t) ==
    \E i \in DOMAIN RingOf(cell, k, t) : ~IsPathable(t, RingOf(cell, k, t)[i])

RingTerms(field, cell, k, tm, t) ==
    [i \in DOMAIN RingOf(cell, k, t) |->
        Term(cell, RingOf(cell, k, t)[i],
             get_spatial_team_value(field, RingOf(cell, k, t)[i], tm, F32_MAX))]

(* the terms of the rings 2..k that may contribute: k is at most the        *)
(* configured maximum and no ring of 2..k holds an impassable cell          *)
RECURSIVE AllowedRingTerms(_, _, _, _, _)
AllowedRingTerms(field, cell, k, tm, t) ==
    IF k > max_convolution_length \/ RingHasObstacle(cell, k, t) THEN <<>>
    ELSE RingTerms(field, cell, k, tm, t) \o AllowedRingTerms(field, cell, k + 1, tm, t)

(* the weighted sum over ring 1 and the allowed rings, normalised *)
BoundedRingFlow(field, cell, tm, t) ==
    normalized_or_zero(WeightedSum(
        RingOneScan(field, cell, tm, t).terms \o AllowedRingTerms(field, cell, 2, tm, t)))

(* a cell whose scan at distance 1 met no obstacle: the ring expansion runs *)
Expands(cell, tm) ==
    /\ <<cell, tm>> \in DOMAIN flow_field
    /\ RingOneScan(integration_field, cell, tm, terrain).obstacle_x = <<>>

(* C25: the ring expansion never uses a ring beyond max_convolution_length: *)
(* the vector stored for a cell that expands is the normalised weighted sum *)
(* over ring 1 and the rings 2..k with k <= max_convolution_length and no   *)
(* impassable cell in rings 2..k; with the shipped maximum of 1 no cell at  *)
(* grid distance 2 contributes.                                             *)
C25_RingsWithinMaximum ==
    \A tm \in {Team1, Team2} :
        JustExtracted(tm) =>
            \A c \in FieldKeys(integration_field) :
                Expands(c, tm) =>
                    Flow(tm, c) = BoundedRingFlow(integration_field, c, tm, terrain)

(* the rule about impassable cells alone: a ring that holds an impassable   *)
(* cell contributes nothing                                                 *)
C25_BlockedRingDiscarded ==
    \A tm \in {Team1, Team2} :
        JustExtracted(tm) =>
            \A c \in FieldKeys(integration_field) :
                (Expands(c, tm) /\ RingHasObstacle(c, 2, terrain)) =>
                    Flow(tm, c) = BoundedRingFlow(integration_field, c, tm, terrain)


NeighborsOf(cell, t) ==
    Range(get_orthognal_neighbor_cells(cell, t.max_bounds))
        \cup Range(get_diagonal_neighbor_cells(cell, t.max_bounds))

OrthogonalObstacle(cell, t) ==
    \E n \in Range(get_orthognal_neighbor_cells(cell, t.max_bounds)) : ~IsPathable(t, n)

ObstacleAtDistanceOne(cell, t) == \E n \in NeighborsOf(cell, t) : ~IsPathable(t, n)

(* the wall-hugging fallback: the unit vector toward min_node of the scan   *)
FallbackFlow(field, cell, tm, t) ==
    LET min_node == RingOneScan(field, cell, tm, t).min_node
    IN  normalized_or_zero(VecAdd(VecZero, 1, min_node[1] - cell[1], min_node[2] - cell[2]))

(* the normalised weighted sum over the scan and the ring expansion *)
SumFlow(field, cell, tm, t) ==
    normalized_or_zero(WeightedSum(
        ConvolutionLoop(RingOneScan(field, cell, tm, t).terms, 2, cell, field, tm, t)))

Stored(tm) == {c \in FieldKeys(integration_field) : <<c, tm>> \in DOMAIN flow_field}

(* C26: the fallback is taken exactly when at least one of the 4 orthogonal *)
(* neighbours is impassable; with no impassable orthogonal neighbour, even  *)
(* with an impassable diagonal one, the stored vector is the normalised     *)
(* weighted sum with ring expansion.                                        *)
C26_FallbackOnOrthogonalObstacle ==
    \A tm \in {Team1, Team2} :
        JustExtracted(tm) =>
            \A c \in Stored(tm) :
                Flow(tm, c) = IF OrthogonalObstacle(c, terrain)
                              THEN FallbackFlow(integration_field, c, tm, terrain)
                              ELSE SumFlow(integration_field, c, tm, terrain)

(* C26, amended: the fallback is taken exactly when at least one of the     *)
(* orthogonal or diagonal neighbours is impassable; with all eight          *)
(* pathable the stored vector is the normalised weighted sum with the ring  *)
(* expansion.                                                               *)
C26_FallbackOnAnyObstacle ==
    \A tm \in {Team1, Team2} :
        JustExtracted(tm) =>
            \A c \in Stored(tm) :
                Flow(tm, c) = IF ObstacleAtDistanceOne(c, terrain)
                              THEN FallbackFlow(integration_field, c, tm, terrain)
                              ELSE SumFlow(integration_field, c, tm, terrain)

(* a cell with an impassable diagonal neighbour and four pathable           *)
(* orthogonal ones, stored with the fallback vector where the weighted sum  *)
(* is another vector; and a cell with eight pathable neighbours stored with *)
(* a weighted sum that is not the fallback vector                           *)
C26_Witness ==
    /\ JustExtracted(Team1)
    /\ \E c \in Stored(Team1) :
          /\ ~OrthogonalObstacle(c, terrain)
          /\ ObstacleAtDistanceOne(c, terrain)
          /\ Flow(Team1, c) = FallbackFlow(integration_field, c, Team1, terrain)
          /\ Flow(Team1, c) # SumFlow(integration_field, c, Team1, terrain)
    /\ \E c \in Stored(Team1) :
          /\ ~ObstacleAtDistanceOne(c, terrain)
          /\ Flow(Team1, c) = SumFlow(integration_field, c, Team1, terrain)
          /\ Flow(Team1, c) # FallbackFlow(integration_field, c, Team1, terrain)


----------------------------------------------------------------------------
(* Completeness and duplicates of the neighbor cache *)

ListIds(i, a) == {TierList(i, a)[k][1] : k \in DOMAIN TierList(i, a)}

ClampedDistanceSquared(a, b) == Max(TrueDistanceSquared(a, b), 0)

(* a and b are in each other's list of every tier that reaches their distance *)
PairedInReachingTiers(a, b) ==
    \A i \in DOMAIN radii :
        ClampedDistanceSquared(a, b) <= radii[i] * radii[i] =>
            b \in ListIds(i, a) /\ a \in ListIds(i, b)

(* C27: after a build, for every agent A with an awareness radius and every *)
(* other agent B in a bucket of a cell that A's awareness square overlaps,  *)
(* B is in A's list and A in B's list of every tier i with surface distance *)
(* <= radii[i], whatever the order of the agents and whether or not B has   *)
(* an awareness radius.                                                     *)
C27_NeighborCompleteness ==
    Ready =>
        \A a, b \in DOMAIN agents :
            (a # b /\ Reaches(a, b)) => PairedInReachingTiers(a, b)

(* the same statement for the pairs where B has no awareness radius or B's  *)
(* awareness square reaches a bucket of A as well                           *)
C27_CompleteWhenMutual ==
    Ready =>
        \A a, b \in DOMAIN agents :
            (a # b /\ Reaches(a, b) /\ (~agents[b].aware \/ Reaches(b, a)))
                => PairedInReachingTiers(a, b)


(* the buckets of b's body that the awareness square of a visits *)
SharedBuckets(a, b) ==
    Range(get_all_spatial_hashes_from_circle(agents[a].pos, agents[a].aw, HASH_CELL_SIZE))
        \cap Range(get_all_spatial_hashes_from_circle(agents[b].pos, agents[b].r, HASH_CELL_SIZE))

(* C28: each unordered pair is evaluated at most once per build: in every   *)
(* tier an agent B is at most once in the list of an agent A and no agent   *)
(* is in its own list, also when A and B share several buckets and both     *)
(* have an awareness radius.                                                *)
C28_NoDuplicateEdges ==
    Ready =>
        \A i \in DOMAIN neighbor_cache.vec_of_maps :
            \A a \in DOMAIN agents :
                /\ Cardinality(ListIds(i, a)) = Len(TierList(i, a))
                /\ a \notin ListIds(i, a)

(* A and C both have an awareness radius, C's body lies in several buckets  *)
(* that A's awareness square visits, C's awareness square reaches A, and    *)
(* each is in the other's list of the widest scenario tier                  *)
C28_Witness ==
    /\ Ready
    /\ agents[1].aware
    /\ agents[3].aware
    /\ Cardinality(SharedBuckets(1, 3)) >= 2
    /\ Reaches(3, 1)
    /\ 3 \in ListIds(3, 1)
    /\ 1 \in ListIds(3, 3)


----------------------------------------------------------------------------
(* Termination of the wavefront *)

RECURSIVE SumValues(_, _, _)
SumValues(field, tm, cells) ==
    IF cells = {} THEN 0
    ELSE LET c == CHOOSE x \in cells : TRUE
         IN  get_spatial_team_value(field, c, tm, F32_MAX) + SumValues(field, tm, cells \ {c})

PathableKeys(field) == {c \in FieldKeys(field) : IsPathable(terrain, c)}

(* an iteration of the wavefront loop lowers the sum of the values of the   *)
(* pathable cells, or leaves it and shortens the queue: a measure in        *)
(* Nat \X Nat that the loop cannot lower for ever                           *)
PopDecreases ==
    (pc = "propagate" /\ open_queue # <<>>) =>
        LET cells == PathableKeys(integration_field')
            before == SumValues(integration_field, team, cells)
            after == SumValues(integration_field', team, cells)
        IN  \/ after < before
            \/ after = before /\ Len(open_queue') < Len(open_queue)

(* every cell that holds a value lies in [-1, bounds] on both axes or is a  *)
(* goal cell of the alignment                                               *)
ValuesWithinRange ==
    \A p \in DOMAIN integration_field :
        p[1] \in ExploredCells(terrain) \/ p[1] \in Goals(p[2])

(* C29: the wavefront loop terminates for every bounds, every placement of  *)
(* the agents inside or outside the bounds and every non-negative movement  *)
(* cost, 0 on pathable cells included: each iteration lowers a well-founded *)
(* measure, so the queue runs empty; and only cells with coordinates in     *)
(* [-1, bounds] or goal cells ever receive a value.                         *)
C29_TerminatesWithinRange == []ValuesWithinRange /\ [][PopDecreases]_vars

(* the termination part of C29 alone *)
C29_PropagationTerminates == [][PopDecreases]_vars

(* a wavefront that crossed a pathable cell of cost 0 and ran empty *)
C29_CostZeroConverged ==
    /\ Converged(Team1)
    /\ \E c \in ExploredCells(terrain) \ Goals(Team1) :
          /\ IsPathable(terrain, c)
          /\ get_cell(terrain, c).movement_cost = 0
          /\ Value(Team1, c) = 0


----------------------------------------------------------------------------
(* Determinism of the flow field *)

(* every goal cell of every alignment is pathable *)
GoalsPathable ==
    \A tm \in DOMAIN PartitionCells(agents, terrain) :
        \A g \in OpenSet(PartitionCells(agents, terrain), tm) : IsPathable(terrain, g)

(* C30: for a fixed terrain and fixed teams and positions of the agents,    *)
(* the integration values and the flow vectors that build_flow_fields       *)
(* inserts, and the cells that have a stored vector, are the same for every *)
(* order of the alignments and every order in which the seed cells enter    *)
(* the queue: the inserted fields are the only fields a build can give.     *)
C30_FlowFieldDeterministic ==
    pc = "done" => CompleteBuilds = {Inserted}

(* the integration values alone, for the placements whose goal cells are   *)
(* all pathable                                                             *)
C30_ValuesDeterministicForPathableGoals ==
    (pc = "done" /\ GoalsPathable) =>
        \A r \in CompleteBuilds : r.integration_field = res_integration_field

====
